---- MODULE Spec2Model ----
(***************************************************************************)
(* isomdl-uniffi: the intermediate-chaining trust resolution loop of       *)
(* verify_oid4vp_response (reader.rs) and Mdoc::verify_issuer_signature    *)
(* (mdoc.rs), the holder presentation session (holder.rs), the reader      *)
(* session (reader.rs) and the verification entry points, MdocVerifier     *)
(* (verifier.rs) included.                                                 *)
(***************************************************************************)
EXTENDS Integers, Sequences, FiniteSets, TLC

(* ---------------------------------------------------------------------- *)
(* Bounds of the model                                                     *)
(* ---------------------------------------------------------------------- *)
NumDN == 2
NumKey == 2
MaxChain == 2
MaxAnchors == 1
NumRequests == 2
NumUuid == 2

DN == 1..NumDN
Key == 1..NumKey

(* ---------------------------------------------------------------------- *)
(* Certificates (x509_cert::Certificate): the fields the code reads        *)
(* ---------------------------------------------------------------------- *)
\* subject/issuer: tbs_certificate.subject / .issuer; key: the subject public
\* key; signer: the key that produced the certificate's signature; ca: the
\* BasicConstraints cA flag (FALSE when the extension is absent).
Certificate == [subject : DN, issuer : DN, key : Key, signer : Key, ca : BOOLEAN]

NullCert == [subject |-> 0, issuer |-> 0, key |-> 0, signer |-> 0, ca |-> FALSE]

\* verify_signature(subject, issuer): the subject's signature over its TBS
\* bytes verifies under the issuer's public key.
verify_signature(subject, issuer) == subject.signer = issuer.key

\* The is_ca computation: BasicConstraints extension present and cA set.
is_ca(cert) == cert.ca

(* PEM strings.  to_pem(line_ending) encodes a certificate; from_pem decodes  *)
(* a string, failing on text that is not a certificate.                      *)
to_pem(cert, line_ending) == [ok |-> TRUE, cert |-> cert, le |-> line_ending]

BadPem == [ok |-> FALSE, cert |-> NullCert, le |-> "LF"]

from_pem_ok(pem) == pem.ok

from_pem(pem) == pem.cert

\* PemTrustAnchor { certificate_pem, purpose: TrustPurpose::Iaca }
PemTrustAnchor(pem) == [certificate_pem |-> pem, purpose |-> "Iaca"]

(* ciborium::Value entries of the x5chain header array *)
BytesOfCert(cert) == [kind |-> "Bytes", der_ok |-> TRUE, cert |-> cert]

BadDer == [kind |-> "Bytes", der_ok |-> FALSE, cert |-> NullCert]

NotBytes == [kind |-> "Text", der_ok |-> FALSE, cert |-> NullCert]

ChainEntry == {BytesOfCert(c) : c \in Certificate} \cup {BadDer, NotBytes}

(* ---------------------------------------------------------------------- *)
(* Sequence helpers                                                        *)
(* ---------------------------------------------------------------------- *)
Range(s) == {s[i] : i \in 1..Len(s)}

SeqsUpTo(S, n) == UNION {[1..k -> S] : k \in 0..n}

MaxOf(S) == CHOOSE x \in S : \A y \in S : y <= x

RECURSIVE DescSeq(_)
\* new_trusted_indices.sort_by(|a, b| b.cmp(a)); dedup()
DescSeq(S) == IF S = {} THEN <<>> ELSE <<MaxOf(S)>> \o DescSeq(S \ {MaxOf(S)})

\* Vec::remove of every index in the set
RemoveIndices(s, S) ==
  LET keep == {i \in 1..Len(s) : i \notin S}
      RECURSIVE Build(_)
      Build(i) == IF i > Len(s) THEN <<>>
                  ELSE (IF i \in keep THEN <<s[i]>> ELSE <<>>) \o Build(i + 1)
  IN Build(1)

RECURSIVE MapCert(_, _)
MapCert(s, le) == IF s = <<>> THEN <<>>
                  ELSE <<PemTrustAnchor(to_pem(Head(s), le))>> \o MapCert(Tail(s), le)

(* ---------------------------------------------------------------------- *)
(* Inputs                                                                  *)
(* ---------------------------------------------------------------------- *)
\* Supplied anchors are PEM strings; the loop reads only the subject and the
\* public key of a decoded anchor, so the decodable ones range over the
\* self-signed CA certificates.
RootCert == {c \in Certificate : c.issuer = c.subject /\ c.signer = c.key /\ c.ca}

AnchorPem == {to_pem(c, "LF") : c \in RootCert} \cup {BadPem}

\* Option<Vec<String>>
AnchorsInput == {[some |-> FALSE, list |-> <<>>]}
                  \cup {[some |-> TRUE, list |-> l] : l \in SeqsUpTo(AnchorPem, MaxAnchors)}

\* The value under X5CHAIN_COSE_HEADER_LABEL: absent, a single byte string, or
\* an array of values
X5ChainCbor == {[kind |-> "Missing", items |-> <<>>]}
                 \cup {[kind |-> "Bytes", items |-> <<e>>] : e \in ChainEntry \ {NotBytes}}
                 \cup {[kind |-> "Array", items |-> l] : l \in SeqsUpTo(ChainEntry, MaxChain)}

(* ---------------------------------------------------------------------- *)
(* The resolution loop                                                     *)
(* ---------------------------------------------------------------------- *)
\* Variant of Candidates: a malformed entry ends the extraction
Candidates_StopAtMalformed(cbor) ==
  LET RECURSIVE Build(_)
      Build(i) == IF i > Len(cbor.items) THEN <<>>
                  ELSE IF cbor.items[i].kind = "Bytes" /\ cbor.items[i].der_ok
                       THEN <<[idx |-> i - 1, cert |-> cbor.items[i].cert]>> \o Build(i + 1)
                       ELSE <<>>
  IN IF cbor.kind = "Array" THEN Build(1) ELSE <<>>

\* candidates: the (idx, cert) of every entry that is a byte string and decodes
Candidates(cbor) ==
  LET RECURSIVE Build(_)
      Build(i) == IF i > Len(cbor.items) THEN <<>>
                  ELSE (IF cbor.items[i].kind = "Bytes" /\ cbor.items[i].der_ok
                        THEN <<[idx |-> i - 1, cert |-> cbor.items[i].cert]>>
                        ELSE <<>>) \o Build(i + 1)
  IN IF cbor.kind = "Array" THEN Build(1) ELSE <<>>

\* trusted_certs: filter_map(|pem| Certificate::from_pem(..).ok())
ParseRoots(pem_anchors) ==
  LET RECURSIVE Build(_)
      Build(i) == IF i > Len(pem_anchors) THEN <<>>
                  ELSE (IF from_pem_ok(pem_anchors[i].certificate_pem)
                        THEN <<from_pem(pem_anchors[i].certificate_pem)>>
                        ELSE <<>>) \o Build(i + 1)
  IN Build(1)

\* Variant of is_signed_by_trusted: the issuer/subject comparison is left out
is_signed_by_trusted_NoDN(cert, trusted_certs) ==
  \E j \in 1..Len(trusted_certs) : verify_signature(cert, trusted_certs[j])

\* Variant of is_signed_by_trusted: the loop ends at the first trusted
\* certificate whose subject is the issuer, whether or not it verifies
is_signed_by_trusted_FirstSubject(cert, trusted_certs) ==
  \E j \in 1..Len(trusted_certs) :
      /\ cert.issuer = trusted_certs[j].subject
      /\ \A k \in 1..(j - 1) : cert.issuer # trusted_certs[k].subject
      /\ verify_signature(cert, trusted_certs[j])

\* the inner for loop over trusted_certs with its break
is_signed_by_trusted(cert, trusted_certs) ==
  \E j \in 1..Len(trusted_certs) :
      /\ cert.issuer = trusted_certs[j].subject
      /\ verify_signature(cert, trusted_certs[j])

new_trusted_indices(st) ==
  {i \in 1..Len(st.candidates) : is_signed_by_trusted(st.candidates[i].cert, st.trusted_certs)}

\* the certificates removed from candidates, in the order of removal
Removed(st) ==
  LET d == DescSeq(new_trusted_indices(st))
  IN [k \in 1..Len(d) |-> st.candidates[d[k]].cert]

\* Variant of LoopInit: use_intermediate_chaining is ignored
LoopInit_AlwaysChain(pem_anchors, cbor, chaining) ==
  [pem_anchors   |-> pem_anchors,
   trusted_certs |-> IF cbor.kind # "Missing" THEN ParseRoots(pem_anchors) ELSE <<>>,
   candidates    |-> Candidates(cbor),
   progress      |-> cbor.kind = "Array",
   passes        |-> 0]

\* State of a loop before its first pass
LoopInit(pem_anchors, cbor, chaining) ==
  [pem_anchors   |-> pem_anchors,
   trusted_certs |-> IF chaining /\ cbor.kind # "Missing" THEN ParseRoots(pem_anchors) ELSE <<>>,
   candidates    |-> IF chaining THEN Candidates(cbor) ELSE <<>>,
   progress      |-> chaining /\ cbor.kind = "Array",
   passes        |-> 0]

\* Variant of ReaderPassOf: pem_anchors is rebuilt from the promoted certificates
ReaderPassOf_DropAnchors(st) ==
  LET promoted == SelectSeq(Removed(st), is_ca)
  IN [pem_anchors   |-> MapCert(promoted, "Default"),
      trusted_certs |-> st.trusted_certs \o promoted,
      candidates    |-> RemoveIndices(st.candidates, new_trusted_indices(st)),
      progress      |-> promoted # <<>>,
      passes        |-> st.passes + 1]

\* Variant of ReaderPassOf: a single pass, progress is never set
ReaderPassOf_SinglePass(st) ==
  LET promoted == SelectSeq(Removed(st), is_ca)
  IN [pem_anchors   |-> st.pem_anchors \o MapCert(promoted, "Default"),
      trusted_certs |-> st.trusted_certs \o promoted,
      candidates    |-> RemoveIndices(st.candidates, new_trusted_indices(st)),
      progress      |-> FALSE,
      passes        |-> st.passes + 1]

\* Variant of ReaderPassOf: one pass in chain order that trusts a promoted
\* certificate at once and never repeats
ReaderPassOf_Inline(st) ==
  LET RECURSIVE Walk(_, _)
      Walk(i, trusted) ==
        IF i > Len(st.candidates) THEN <<>>
        ELSE IF is_signed_by_trusted(st.candidates[i].cert, trusted) /\ is_ca(st.candidates[i].cert)
             THEN <<st.candidates[i].cert>> \o Walk(i + 1, trusted \o <<st.candidates[i].cert>>)
             ELSE Walk(i + 1, trusted)
      promoted == Walk(1, st.trusted_certs)
  IN [pem_anchors   |-> st.pem_anchors \o MapCert(promoted, "Default"),
      trusted_certs |-> st.trusted_certs \o promoted,
      candidates    |-> <<>>,
      progress      |-> FALSE,
      passes        |-> st.passes + 1]

\* Variant of ReaderPassOf: promoted candidates stay in the pool
ReaderPassOf_KeepCandidates(st) ==
  LET promoted == SelectSeq(Removed(st), is_ca)
  IN [pem_anchors   |-> st.pem_anchors \o MapCert(promoted, "Default"),
      trusted_certs |-> st.trusted_certs \o promoted,
      candidates    |-> st.candidates,
      progress      |-> promoted # <<>>,
      passes        |-> st.passes + 1]

\* One iteration of `while progress` in verify_oid4vp_response
ReaderPassOf(st) ==
  LET promoted == SelectSeq(Removed(st), is_ca)
  IN [pem_anchors   |-> st.pem_anchors \o MapCert(promoted, "Default"),
      trusted_certs |-> st.trusted_certs \o promoted,
      candidates    |-> RemoveIndices(st.candidates, new_trusted_indices(st)),
      progress      |-> promoted # <<>>,
      passes        |-> st.passes + 1]

\* One iteration of `while progress` in Mdoc::verify_issuer_signature
MdocPassOf(st) ==
  LET removed == Removed(st)
  IN [pem_anchors   |-> st.pem_anchors \o MapCert(SelectSeq(removed, is_ca), "LF"),
      trusted_certs |-> st.trusted_certs \o removed,
      candidates    |-> RemoveIndices(st.candidates, new_trusted_indices(st)),
      progress      |-> removed # <<>>,
      passes        |-> st.passes + 1]

RECURSIVE ReaderLoop(_)
ReaderLoop(st) == IF st.progress THEN ReaderLoop(ReaderPassOf(st)) ELSE st

RECURSIVE MdocLoop(_)
MdocLoop(st) == IF st.progress THEN MdocLoop(MdocPassOf(st)) ELSE st

\* pem_anchors built from the supplied anchors
ReaderPemAnchors(a) == [i \in 1..Len(a.list) |-> PemTrustAnchor(a.list[i])]

MdocPemAnchors(a) == [i \in 1..Len(a.list) |-> PemTrustAnchor(a.list[i])]

\* trust_anchors.filter(|a| !a.is_empty())
MdocHasAnchors(a) == a.some /\ a.list # <<>>

(* ---------------------------------------------------------------------- *)
(* Registry and validation                                                 *)
(* ---------------------------------------------------------------------- *)
\* TrustAnchorRegistry::from_pem_certificates: fails on an undecodable PEM
RegistryOk(pem_anchors) == \A i \in 1..Len(pem_anchors) : from_pem_ok(pem_anchors[i].certificate_pem)

Registry(pem_anchors) == Range(ParseRoots(pem_anchors))

\* the entries of the header value that are byte strings holding a certificate
Decodable(cbor) == {i \in 1..Len(cbor.items) : cbor.items[i].kind = "Bytes" /\ cbor.items[i].der_ok}

\* The chain the library parsed from the header: the decodable certificates
X5ChainCerts(cbor) ==
  LET RECURSIVE Build(_)
      Build(i) == IF i > Len(cbor.items) THEN <<>>
                  ELSE (IF i \in Decodable(cbor) THEN <<cbor.items[i].cert>> ELSE <<>>)
                         \o Build(i + 1)
  IN Build(1)

\* X5Chain::from_cbor / reader::parse accept a well-formed chain (one
\* certificate, or a non-empty array of certificates); what they do with any
\* other value is the library's choice.
WellFormed(cbor) ==
  /\ cbor.kind \in {"Array", "Bytes"}
  /\ cbor.items # <<>>
  /\ \A i \in 1..Len(cbor.items) : cbor.items[i].kind = "Bytes" /\ cbor.items[i].der_ok

ParseOutcomes(cbor) == IF WellFormed(cbor) THEN {TRUE} ELSE BOOLEAN

\* ValidationRuleset::Mdl: the document signer (first certificate of the chain)
\* must be issued and signed by a certificate of the registry.
MdlAnchored(chain, registry) ==
  /\ chain # <<>>
  /\ \E r \in registry : chain[1].issuer = r.subject /\ verify_signature(chain[1], r)

(* ---------------------------------------------------------------------- *)
(* Holder session (MdlPresentationSession)                                 *)
(* ---------------------------------------------------------------------- *)
RequestId == 1..NumRequests

\* the document types a request asks for
RequestedDocs(id) == 1..id

\* bytes handed to handle_request: serialized SessionEstablishment or not
RequestBytes == {[decodable |-> FALSE, establishes |-> FALSE, id |-> 1]}
                  \cup [decodable : {TRUE}, establishes : BOOLEAN, id : RequestId]

\* HashMap of the items the user consented to, by document type
PermittedItems == SUBSET RequestId

\* the signature argument: 64 bytes of a P-256 signature, or anything else
SignatureBytes == {"p256", "malformed"}

\* device::SessionManager after process_session_establishment
SessionManagerFor(engaged_state, id) ==
  [engagement |-> engaged_state, request |-> id, state |-> "RequestReceived", pending |-> {}]

\* SessionManagerEngaged::process_session_establishment
process_session_establishment(engaged_state, request) ==
  IF request.establishes
  THEN [ok |-> TRUE, session |-> SessionManagerFor(engaged_state, request.id),
        items_request |-> request.id]
  ELSE [ok |-> FALSE, session |-> SessionManagerFor(engaged_state, request.id),
        items_request |-> request.id]

\* SessionManager::prepare_response: the requested documents the user permits
prepare_response(session, items_request, permitted) ==
  [session EXCEPT !.state = "ResponsePrepared",
                  !.pending = RequestedDocs(items_request) \cap permitted]

\* SessionManager::get_next_signature_payload
get_next_signature_payload(session) ==
  IF session.state = "ResponsePrepared" /\ session.pending # {}
  THEN [some |-> TRUE, doc |-> MaxOf(session.pending)]
  ELSE [some |-> FALSE, doc |-> 0]

\* SessionManager::submit_next_signature: binds the signature of the next payload
submit_next_signature(session) ==
  IF session.state = "ResponsePrepared" /\ session.pending # {}
  THEN [ok |-> TRUE,
        session |-> [session EXCEPT
                       !.pending = session.pending \ {MaxOf(session.pending)},
                       !.state = IF session.pending = {MaxOf(session.pending)}
                                 THEN "Completed" ELSE "ResponsePrepared"]]
  ELSE [ok |-> FALSE, session |-> session]

\* SessionManager::retrieve_response
retrieve_response(session) ==
  IF session.state = "Completed"
  THEN [some |-> TRUE, bytes |-> session.request]
  ELSE [some |-> FALSE, bytes |-> 0]

\* Option<InProcessRecord>
NoRecord == [some |-> FALSE,
             session |-> SessionManagerFor(0, 0),
             items_request |-> 0]

InProcessRecord(session, items_request) ==
  [some |-> TRUE, session |-> session, items_request |-> items_request]

\* session::Status::SessionTermination, the status code of the message
SessionTermination == 20

\* Variant of handle_request: a failing call drops the pending exchange
handle_request_ClearOnError(engaged_state, rec, request) ==
  IF ~request.decodable
  THEN [in_process |-> NoRecord, result |-> "Err:Generic:deserialize", value |-> 0]
  ELSE LET est == process_session_establishment(engaged_state, request)
       IN IF ~est.ok
          THEN [in_process |-> NoRecord, result |-> "Err:Generic:establishment",
                value |-> 0]
          ELSE [in_process |-> InProcessRecord(est.session, est.items_request),
                result |-> "Ok", value |-> est.items_request]

\* Variant of handle_request: the session of an earlier request is kept and
\* only the requested items are replaced
handle_request_Merge(engaged_state, rec, request) ==
  IF ~request.decodable
  THEN [in_process |-> rec, result |-> "Err:Generic:deserialize", value |-> 0]
  ELSE LET est == process_session_establishment(engaged_state, request)
       IN IF ~est.ok
          THEN [in_process |-> rec, result |-> "Err:Generic:establishment", value |-> 0]
          ELSE [in_process |-> InProcessRecord(IF rec.some THEN rec.session
                                                           ELSE est.session,
                                               est.items_request),
                result |-> "Ok", value |-> est.items_request]

\* MdlPresentationSession::handle_request; value: the requested items returned
handle_request(engaged_state, rec, request) ==
  IF ~request.decodable
  THEN [in_process |-> rec, result |-> "Err:Generic:deserialize", value |-> 0]
  ELSE LET est == process_session_establishment(engaged_state, request)
       IN IF ~est.ok
          THEN [in_process |-> rec, result |-> "Err:Generic:establishment", value |-> 0]
          ELSE [in_process |-> InProcessRecord(est.session, est.items_request),
                result |-> "Ok", value |-> est.items_request]

\* Variant of generate_response: without a pending exchange a response is
\* prepared on an empty session
generate_response_Default(rec, permitted) ==
  LET prepared == prepare_response(rec.session, rec.items_request, permitted)
      payload == get_next_signature_payload(prepared)
  IN [in_process |-> InProcessRecord(prepared, rec.items_request),
      result |-> IF ~rec.some THEN "Err:Generic:no_session"
                 ELSE IF payload.some THEN "Ok" ELSE "Err:Generic:no_payload",
      value |-> IF rec.some THEN payload.doc ELSE 0]

\* MdlPresentationSession::generate_response; value: the payload to sign
generate_response(rec, permitted) ==
  IF rec.some
  THEN LET prepared == prepare_response(rec.session, rec.items_request, permitted)
           payload == get_next_signature_payload(prepared)
       IN [in_process |-> InProcessRecord(prepared, rec.items_request),
           result |-> IF payload.some THEN "Ok" ELSE "Err:Generic:no_payload",
           value |-> payload.doc]
  ELSE [in_process |-> rec, result |-> "Err:Generic:no_session", value |-> 0]

\* Variant of submit_response: the pending exchange is looked at before the
\* signature is parsed
submit_response_SessionFirst(rec, signature) ==
  IF ~rec.some
  THEN [in_process |-> rec, result |-> "Err:Generic:no_session", value |-> 0]
  ELSE LET sub == submit_next_signature(rec.session)
           response == retrieve_response(sub.session)
       IN IF ~sub.ok
          THEN [in_process |-> rec, result |-> "Err:Generic:submit", value |-> 0]
          ELSE IF signature # "p256"
          THEN [in_process |-> rec, result |-> "Err:InvalidSignature", value |-> 0]
          ELSE [in_process |-> InProcessRecord(sub.session, rec.items_request),
                result |-> IF response.some THEN "Ok" ELSE "Err:TooManyDocuments",
                value |-> response.bytes]

\* Variant of submit_response: a signature is accepted for a request for which
\* no response was prepared
submit_response_Unprepared(rec, signature) ==
  IF signature # "p256"
  THEN [in_process |-> rec, result |-> "Err:InvalidSignature", value |-> 0]
  ELSE IF rec.some
  THEN LET sub == submit_next_signature(rec.session)
           response == retrieve_response(sub.session)
       IN IF rec.session.state = "RequestReceived"
          THEN [in_process |-> InProcessRecord([rec.session EXCEPT !.state = "Completed"],
                                               rec.items_request),
                result |-> "Ok", value |-> rec.session.request]
          ELSE IF ~sub.ok
          THEN [in_process |-> rec, result |-> "Err:Generic:submit", value |-> 0]
          ELSE [in_process |-> InProcessRecord(sub.session, rec.items_request),
                result |-> IF response.some THEN "Ok" ELSE "Err:TooManyDocuments",
                value |-> response.bytes]
  ELSE [in_process |-> rec, result |-> "Err:Generic:no_session", value |-> 0]

\* Variant of submit_response: the pending exchange is cleared once the
\* response is complete
submit_response_ClearOnCompletion(rec, signature) ==
  IF signature # "p256"
  THEN [in_process |-> rec, result |-> "Err:InvalidSignature", value |-> 0]
  ELSE IF rec.some
  THEN LET sub == submit_next_signature(rec.session)
           response == retrieve_response(sub.session)
       IN IF ~sub.ok
          THEN [in_process |-> rec, result |-> "Err:Generic:submit", value |-> 0]
          ELSE IF response.some
          THEN [in_process |-> NoRecord, result |-> "Ok", value |-> response.bytes]
          ELSE [in_process |-> InProcessRecord(sub.session, rec.items_request),
                result |-> "Err:TooManyDocuments", value |-> 0]
  ELSE [in_process |-> rec, result |-> "Err:Generic:no_session", value |-> 0]

\* Variant of submit_response: the record is taken out of the session first
submit_response_Take(rec, signature) ==
  IF signature # "p256"
  THEN [in_process |-> rec, result |-> "Err:InvalidSignature", value |-> 0]
  ELSE IF rec.some
  THEN LET sub == submit_next_signature(rec.session)
           response == retrieve_response(sub.session)
       IN IF ~sub.ok
          THEN [in_process |-> NoRecord, result |-> "Err:Generic:submit", value |-> 0]
          ELSE [in_process |-> InProcessRecord(sub.session, rec.items_request),
                result |-> IF response.some THEN "Ok" ELSE "Err:TooManyDocuments",
                value |-> response.bytes]
  ELSE [in_process |-> rec, result |-> "Err:Generic:no_session", value |-> 0]

\* Variant of submit_response: the response is returned although payloads
\* remain to be signed
submit_response_Partial(rec, signature) ==
  IF signature # "p256"
  THEN [in_process |-> rec, result |-> "Err:InvalidSignature", value |-> 0]
  ELSE IF rec.some
  THEN LET sub == submit_next_signature(rec.session)
       IN IF ~sub.ok
          THEN [in_process |-> rec, result |-> "Err:Generic:submit", value |-> 0]
          ELSE [in_process |-> InProcessRecord(sub.session, rec.items_request),
                result |-> "Ok", value |-> sub.session.request]
  ELSE [in_process |-> rec, result |-> "Err:Generic:no_session", value |-> 0]

\* Variant of submit_response: a completed response is handed out again
submit_response_Replay(rec, signature) ==
  IF signature # "p256"
  THEN [in_process |-> rec, result |-> "Err:InvalidSignature", value |-> 0]
  ELSE IF rec.some
  THEN LET sub == submit_next_signature(rec.session)
           response == retrieve_response(sub.session)
       IN IF ~sub.ok
          THEN IF retrieve_response(rec.session).some
               THEN [in_process |-> rec, result |-> "Ok",
                     value |-> retrieve_response(rec.session).bytes]
               ELSE [in_process |-> rec, result |-> "Err:Generic:submit", value |-> 0]
          ELSE [in_process |-> InProcessRecord(sub.session, rec.items_request),
                result |-> IF response.some THEN "Ok" ELSE "Err:TooManyDocuments",
                value |-> response.bytes]
  ELSE [in_process |-> rec, result |-> "Err:Generic:no_session", value |-> 0]

\* MdlPresentationSession::submit_response; value: the response bytes
submit_response(rec, signature) ==
  IF signature # "p256"
  THEN [in_process |-> rec, result |-> "Err:InvalidSignature", value |-> 0]
  ELSE IF rec.some
  THEN LET sub == submit_next_signature(rec.session)
           response == retrieve_response(sub.session)
       IN IF ~sub.ok
          THEN [in_process |-> rec, result |-> "Err:Generic:submit", value |-> 0]
          ELSE [in_process |-> InProcessRecord(sub.session, rec.items_request),
                result |-> IF response.some THEN "Ok" ELSE "Err:TooManyDocuments",
                value |-> response.bytes]
  ELSE [in_process |-> rec, result |-> "Err:Generic:no_session", value |-> 0]

\* MdlPresentationSession::terminate_session; value: the termination message
terminate_session ==
  [result |-> "Ok", value |-> SessionTermination]

\* Variant of get_qr_code_uri: the engagement is generated anew
get_qr_code_uri_Fresh(self_qr_code_uri) == (self_qr_code_uri % NumUuid) + 1

\* MdlPresentationSession::get_qr_code_uri
get_qr_code_uri(self_qr_code_uri) == self_qr_code_uri

\* MdlPresentationSession::get_ble_ident
get_ble_ident(self_ble_ident) == self_ble_ident

(* ---------------------------------------------------------------------- *)
(* Threads calling one holder session                                      *)
(* ---------------------------------------------------------------------- *)
NumThreads == 2

Thread == 1..NumThreads

\* the request of a thread that is not inside handle_request
NoRequest == CHOOSE request \in RequestBytes : ~request.decodable

\* a thread outside every call; result is what the call it is in will
\* return, handed to the caller by the step that returns
IdleThread == [pc |-> "idle", request |-> NoRequest, result |-> "none"]

\* where a thread reads or writes the value behind the in_process mutex
Accessing == {"hr_store", "gr_prepare", "gr_payload", "sr_submit", "sr_retrieve"}

\* where a thread holds the guard of the in_process mutex
Holding == Accessing \cup {"hr_return", "gr_return", "sr_return"}

(* ---------------------------------------------------------------------- *)
(* Reader session (establish_session, handle_response)                     *)
(* ---------------------------------------------------------------------- *)
NumElements == 2

MaxAdvertised == 2

Element == 1..NumElements

\* the ephemeral keys of the two devices, as far as a caller can tell them apart
DeviceKey == {"device_a", "device_b"}

ReaderKey == {"reader_a", "reader_b"}

\* the engagement URI of the holder: parsable or not, the device key and the
\* BLE central-client modes it advertises, in order
EngagementUri == {[parses |-> FALSE, device_key |-> "none", central_client |-> <<>>]}
                   \cup [parses : {TRUE}, device_key : DeviceKey,
                         central_client : SeqsUpTo(1..NumUuid, MaxAdvertised)]

\* HashMap<String, HashMap<String, bool>>: no entry, or the entry of one
\* document type with its elements
RequestedItems == {[has_doc |-> FALSE, elements |-> {}]}
                    \cup [has_doc : {TRUE}, elements : SUBSET Element]

\* the bytes handed to handle_response, by what the library finds in them
ResponseBytes == {[decrypts |-> FALSE, parses |-> FALSE, issuer_ok |-> FALSE,
                   device_ok |-> FALSE, elements |-> {}],
                  [decrypts |-> TRUE, parses |-> FALSE, issuer_ok |-> FALSE,
                   device_ok |-> FALSE, elements |-> {}]}
                   \cup [decrypts : {TRUE}, parses : {TRUE}, issuer_ok : BOOLEAN,
                         device_ok : BOOLEAN, elements : SUBSET Element]

\* reader::SessionManager
ReaderSessionManager(uri, namespaces, registry, ekey, state) ==
  [state |-> state, device_key |-> uri.device_key,
   central_client |-> uri.central_client, namespaces |-> namespaces,
   registry |-> registry, ekey |-> ekey]

NoManager ==
  ReaderSessionManager([parses |-> FALSE, device_key |-> "none", central_client |-> <<>>],
                       {}, {}, "none", "None")

\* reader::SessionManager::establish_session: (manager, request, ble_ident)
reader_establish_session(uri, namespaces, registry, ekey) ==
  [ok |-> uri.parses,
   manager |-> ReaderSessionManager(uri, namespaces, registry, ekey, "Established"),
   request |-> [namespaces |-> namespaces, ekey |-> ekey],
   ble_ident |-> uri.device_key]

\* reader::SessionManager::ble_central_client_options
ble_central_client_options(manager) == manager.central_client

\* reader::SessionManager::handle_response: ResponseAuthenticationOutcome
reader_handle_response(manager, response) ==
  IF ~response.decrypts
  THEN [manager |-> manager, response |-> {},
        issuer_authentication |-> "Unchecked", device_authentication |-> "Unchecked",
        errors |-> {"decryption_errors"}]
  ELSE IF ~response.parses
  THEN [manager |-> manager, response |-> {},
        issuer_authentication |-> "Unchecked", device_authentication |-> "Unchecked",
        errors |-> {"parsing_errors"}]
  ELSE [manager |-> [manager EXCEPT !.state = "ResponseProcessed"],
        response |-> {[namespace |-> "org.iso.18013.5.1", is_object |-> TRUE,
                       items |-> response.elements]},
        issuer_authentication |->
          IF manager.registry = {} THEN "Unchecked"
          ELSE IF response.issuer_ok THEN "Valid" ELSE "Invalid",
        device_authentication |-> IF response.device_ok THEN "Valid" ELSE "Invalid",
        errors |-> (IF manager.registry # {} /\ ~response.issuer_ok
                    THEN {"issuer_authentication_errors"} ELSE {})
                   \cup (IF ~response.device_ok
                         THEN {"device_authentication_errors"} ELSE {})]

\* MDLReaderSessionData of a failed call
NoSessionData(result) ==
  [result |-> result, state |-> NoManager, uuid |-> 0,
   request |-> [namespaces |-> {}, ekey |-> "none"], ble_ident |-> "none"]

\* Variant of establish_session: the last advertised uuid is returned
establish_session_LastUuid(uri, requested_items, trust_anchor_registry, ekey) ==
  IF requested_items.has_doc /\ requested_items.elements = {}
  THEN NoSessionData("Err:Generic:data_elements")
  ELSE IF ~requested_items.has_doc
  THEN NoSessionData("Err:Generic:namespaces")
  ELSE IF ~RegistryOk(ReaderPemAnchors(trust_anchor_registry))
  THEN NoSessionData("Err:Generic:registry")
  ELSE LET est == reader_establish_session(uri, requested_items.elements,
                     Registry(ReaderPemAnchors(trust_anchor_registry)), ekey)
           options == ble_central_client_options(est.manager)
       IN IF ~est.ok
          THEN NoSessionData("Err:Generic:establish")
          ELSE IF options = <<>>
          THEN NoSessionData("Err:Generic:no_central_client_uuid")
          ELSE [result |-> "Ok", state |-> est.manager, uuid |-> options[Len(options)],
                request |-> est.request, ble_ident |-> est.ble_ident]

\* establish_session
establish_session(uri, requested_items, trust_anchor_registry, ekey) ==
  IF requested_items.has_doc /\ requested_items.elements = {}
  THEN NoSessionData("Err:Generic:data_elements")
  ELSE IF ~requested_items.has_doc
  THEN NoSessionData("Err:Generic:namespaces")
  ELSE IF ~RegistryOk(ReaderPemAnchors(trust_anchor_registry))
  THEN NoSessionData("Err:Generic:registry")
  ELSE LET est == reader_establish_session(uri, requested_items.elements,
                     Registry(ReaderPemAnchors(trust_anchor_registry)), ekey)
           options == ble_central_client_options(est.manager)
       IN IF ~est.ok
          THEN NoSessionData("Err:Generic:establish")
          ELSE IF options = <<>>
          THEN NoSessionData("Err:Generic:no_central_client_uuid")
          ELSE [result |-> "Ok", state |-> est.manager, uuid |-> Head(options),
                request |-> est.request, ble_ident |-> est.ble_ident]

\* impl From<IsoMdlAuthenticationStatus> for AuthenticationStatus
AuthenticationStatus(internal) ==
  CASE internal = "Valid" -> "Valid"
    [] internal = "Invalid" -> "Invalid"
    [] internal = "Unchecked" -> "Unchecked"

\* MDLReaderResponseData of a failed call
NoResponseData(result) ==
  [result |-> result, state |-> NoManager, verified_response |-> {},
   issuer_authentication |-> "None", device_authentication |-> "None",
   errors |-> [some |-> FALSE, json |-> {}]]

\* Variant of handle_response: a failed authentication or decryption aborts
\* the call with the matching MDLReaderResponseError
handle_response_Abort(state, response) ==
  LET validated == reader_handle_response(state, response)
  IN IF "decryption_errors" \in validated.errors
     THEN NoResponseData("Err:InvalidDecryption")
     ELSE IF validated.issuer_authentication = "Invalid"
     THEN NoResponseData("Err:InvalidIssuerAuthentication")
     ELSE IF validated.device_authentication = "Invalid"
     THEN NoResponseData("Err:InvalidDeviceAuthentication")
     ELSE [result |-> "Ok", state |-> validated.manager,
           verified_response |-> {[namespace |-> ns.namespace, items |-> ns.items] :
                                    ns \in validated.response},
           issuer_authentication |-> AuthenticationStatus(validated.issuer_authentication),
           device_authentication |-> AuthenticationStatus(validated.device_authentication),
           errors |-> [some |-> validated.errors # {}, json |-> validated.errors]]

\* handle_response: runs on a clone of the session manager; serializing the
\* error map (string keys, JSON values) does not fail
handle_response(state, response) ==
  LET validated == reader_handle_response(state, response)
  IN IF \E ns \in validated.response : ~ns.is_object
     THEN NoResponseData("Err:Generic:items_not_object")
     ELSE [result |-> "Ok", state |-> validated.manager,
           verified_response |-> {[namespace |-> ns.namespace, items |-> ns.items] :
                                    ns \in validated.response},
           issuer_authentication |-> AuthenticationStatus(validated.issuer_authentication),
           device_authentication |-> AuthenticationStatus(validated.device_authentication),
           errors |-> [some |-> validated.errors # {}, json |-> validated.errors]]

(* ---------------------------------------------------------------------- *)
(* Verification entry points: verify_oid4vp_response (reader.rs),          *)
(* Mdoc::verify_issuer_signature (mdoc.rs), MdocVerifier::verify           *)
(* (verifier.rs)                                                           *)
(* ---------------------------------------------------------------------- *)
ClientId == {"client_a", "client_b"}

ResponseUri == {"uri_a", "uri_b"}

Nonce == {"nonce_a", "nonce_b"}

\* Sha256::digest: the digest of a string is not the string, and distinct
\* strings of the model have distinct digests
Sha256(data) == [sha256 |-> data]

\* OID4VPHandover(client_id_hash, response_uri_hash, nonce)
OID4VPHandover(client_id_hash, response_uri_hash, nonce) ==
  <<client_id_hash, response_uri_hash, nonce>>

\* OID4VPSessionTranscript(device_engagement_bytes, e_reader_key, handover)
OID4VPSessionTranscript(device_engagement_bytes, e_reader_key, handover) ==
  <<device_engagement_bytes, e_reader_key, handover>>

\* Certificates of a document's chain: every subject owns one key pair and a
\* certificate carries the signature of its issuer's key.
IssuedCert == {c \in Certificate : c.key = c.subject /\ c.signer = c.issuer}

IssuedEntry == {BytesOfCert(c) : c \in IssuedCert} \cup {BadDer, NotBytes}

\* the x5chain header values of the documents handed to the entry points
DocumentChain ==
  {c \in X5ChainCbor : \A i \in 1..Len(c.items) : c.items[i] \in IssuedEntry}

\* a supplied anchor string that is not a JSON PemTrustAnchor record (nor PEM)
BadJson == [ok |-> FALSE, cert |-> NullCert, le |-> "none"]

\* serde_json::from_str::<PemTrustAnchor>(&anchor) succeeds
from_json_ok(anchor) == anchor # BadJson

\* Option<Vec<String>> handed to the entry points
VerifyAnchors ==
  {[some |-> FALSE, list |-> <<>>]}
    \cup {[some |-> TRUE, list |-> l] :
            l \in SeqsUpTo({to_pem(c, "LF") : c \in RootCert \cap IssuedCert}
                             \cup {BadPem, BadJson}, MaxAnchors)}

\* What the bytes of a document hold besides the x5chain header.  decodes: the
\* bytes are a DeviceResponse / a stringified document; lenient: the library
\* accepts a header value that is not a well-formed chain; issuer: the chain
\* passes the ruleset's other rules and the issuer's signature over the MSO
\* verifies ("ok"), or the rules report an error, or the signature is bad;
\* device_sig_ok: the device signature bytes are intact; elements: the
\* disclosed items.
Garbage ==
  [decodes |-> FALSE, lenient |-> FALSE, issuer |-> "rules_error",
   device_sig_ok |-> FALSE, elements |-> {}]

Document ==
  {Garbage} \cup [decodes : {TRUE}, lenient : BOOLEAN,
                  issuer : {"ok", "rules_error", "bad_signature"},
                  device_sig_ok : BOOLEAN,
                  elements : {{e} : e \in Element}]

\* the response bytes / the Mdoc: the document and its x5chain header
BytesOf(doc, cbor) == [doc |-> doc, x5chain |-> cbor]

\* reader::parse / X5Chain::from_cbor succeed
Parses(bytes) == WellFormed(bytes.x5chain) \/ bytes.doc.lenient

\* the transcript the holder's device signed
DeviceSigned ==
  OID4VPSessionTranscript("null", "null",
    OID4VPHandover(Sha256("client_a"), Sha256("uri_a"), "nonce_a"))

\* reader::validate_response: ResponseAuthenticationOutcome
validate_response(transcript, registry, bytes) ==
  LET issuer_ok == /\ MdlAnchored(X5ChainCerts(bytes.x5chain), registry)
                   /\ bytes.doc.issuer = "ok"
      device_ok == bytes.doc.device_sig_ok /\ transcript = DeviceSigned
  IN [response |-> {[namespace |-> "org.iso.18013.5.1", is_object |-> TRUE,
                     items |-> bytes.doc.elements]},
      issuer_authentication |->
        IF registry = {} THEN "Unchecked"
        ELSE IF issuer_ok THEN "Valid" ELSE "Invalid",
      device_authentication |-> IF device_ok THEN "Valid" ELSE "Invalid",
      errors |-> (IF registry # {} /\ ~issuer_ok
                  THEN {"issuer_authentication_errors"} ELSE {})
                 \cup (IF ~device_ok THEN {"device_authentication_errors"} ELSE {})]

\* Err(MDLReaderResponseError::Generic { value })
NoVerifiedData(value) ==
  [result |-> value, session_transcript |-> <<>>, verified_response |-> {},
   issuer_authentication |-> "None", device_authentication |-> "None",
   errors |-> [some |-> FALSE, json |-> {}]]

\* Variant of session_transcript: the two digests in the other order
session_transcript_Swapped(nonce, client_id, response_uri) ==
  OID4VPSessionTranscript("null", "null",
    OID4VPHandover(Sha256(response_uri), Sha256(client_id), nonce))

\* the transcript of verify_oid4vp_response: the SHA-256 digests of client_id
\* and response_uri, and the nonce
session_transcript(nonce, client_id, response_uri) ==
  LET client_id_hash == Sha256(client_id)
      response_uri_hash == Sha256(response_uri)
  IN OID4VPSessionTranscript("null", "null",
       OID4VPHandover(client_id_hash, response_uri_hash, nonce))

\* Variant of verify_oid4vp_response: the elements are returned only when the
\* device signature verifies
verify_oid4vp_response_DeviceGated(response, nonce, client_id, response_uri, trust_anchor_registry, chaining) ==
  IF ~response.doc.decodes
  THEN NoVerifiedData("Err:Generic:Unable to parse DeviceResponse")
  ELSE
  LET transcript == session_transcript(nonce, client_id, response_uri)
      some == trust_anchor_registry.some
      st == ReaderLoop(LoopInit(IF some THEN ReaderPemAnchors(trust_anchor_registry)
                                ELSE <<>>,
                                response.x5chain, some /\ chaining))
      validated == validate_response(transcript, Registry(st.pem_anchors), response)
  IN IF ~Parses(response)
     THEN NoVerifiedData("Err:Generic:Failed to parse device response")
     ELSE IF some /\ \E i \in 1..Len(trust_anchor_registry.list) :
                        ~from_json_ok(trust_anchor_registry.list[i])
     THEN NoVerifiedData("Err:Generic:Invalid trust anchor JSON")
     ELSE IF ~RegistryOk(st.pem_anchors)
     THEN NoVerifiedData("Err:Generic:Failed to create trust registry")
     ELSE [result |-> "Ok", session_transcript |-> transcript,
           verified_response |-> {[namespace |-> ns.namespace, items |-> ns.items] :
                                    ns \in {n \in validated.response :
                                            /\ n.is_object
                                            /\ validated.device_authentication = "Valid"}},
           issuer_authentication |-> AuthenticationStatus(validated.issuer_authentication),
           device_authentication |-> AuthenticationStatus(validated.device_authentication),
           errors |-> [some |-> validated.errors # {}, json |-> validated.errors]]

\* Variant of verify_oid4vp_response: the anchor records are parsed before the
\* response bytes
verify_oid4vp_response_AnchorsFirst(response, nonce, client_id, response_uri, trust_anchor_registry, chaining) ==
  IF trust_anchor_registry.some
     /\ \E i \in 1..Len(trust_anchor_registry.list) :
           ~from_json_ok(trust_anchor_registry.list[i])
  THEN NoVerifiedData("Err:Generic:Invalid trust anchor JSON")
  ELSE IF ~response.doc.decodes
  THEN NoVerifiedData("Err:Generic:Unable to parse DeviceResponse")
  ELSE
  LET transcript == session_transcript(nonce, client_id, response_uri)
      some == trust_anchor_registry.some
      st == ReaderLoop(LoopInit(IF some THEN ReaderPemAnchors(trust_anchor_registry)
                                ELSE <<>>,
                                response.x5chain, some /\ chaining))
      validated == validate_response(transcript, Registry(st.pem_anchors), response)
  IN IF ~Parses(response)
     THEN NoVerifiedData("Err:Generic:Failed to parse device response")
     ELSE IF some /\ \E i \in 1..Len(trust_anchor_registry.list) :
                        ~from_json_ok(trust_anchor_registry.list[i])
     THEN NoVerifiedData("Err:Generic:Invalid trust anchor JSON")
     ELSE IF ~RegistryOk(st.pem_anchors)
     THEN NoVerifiedData("Err:Generic:Failed to create trust registry")
     ELSE [result |-> "Ok", session_transcript |-> transcript,
           verified_response |-> {[namespace |-> ns.namespace, items |-> ns.items] :
                                    ns \in {n \in validated.response : n.is_object}},
           issuer_authentication |-> AuthenticationStatus(validated.issuer_authentication),
           device_authentication |-> AuthenticationStatus(validated.device_authentication),
           errors |-> [some |-> validated.errors # {}, json |-> validated.errors]]

\* verify_oid4vp_response; the field session_transcript of its result is the
\* transcript handed to validate_response
verify_oid4vp_response(response, nonce, client_id, response_uri, trust_anchor_registry, chaining) ==
  IF ~response.doc.decodes
  THEN NoVerifiedData("Err:Generic:Unable to parse DeviceResponse")
  ELSE
  LET transcript == session_transcript(nonce, client_id, response_uri)
      some == trust_anchor_registry.some
      st == ReaderLoop(LoopInit(IF some THEN ReaderPemAnchors(trust_anchor_registry)
                                ELSE <<>>,
                                response.x5chain, some /\ chaining))
      validated == validate_response(transcript, Registry(st.pem_anchors), response)
  IN IF ~Parses(response)
     THEN NoVerifiedData("Err:Generic:Failed to parse device response")
     ELSE IF some /\ \E i \in 1..Len(trust_anchor_registry.list) :
                        ~from_json_ok(trust_anchor_registry.list[i])
     THEN NoVerifiedData("Err:Generic:Invalid trust anchor JSON")
     ELSE IF ~RegistryOk(st.pem_anchors)
     THEN NoVerifiedData("Err:Generic:Failed to create trust registry")
     ELSE [result |-> "Ok", session_transcript |-> transcript,
           verified_response |-> {[namespace |-> ns.namespace, items |-> ns.items] :
                                    ns \in {n \in validated.response : n.is_object}},
           issuer_authentication |-> AuthenticationStatus(validated.issuer_authentication),
           device_authentication |-> AuthenticationStatus(validated.device_authentication),
           errors |-> [some |-> validated.errors # {}, json |-> validated.errors]]

\* Err(MdocVerificationError)
NoIssuerVerification(error) ==
  [result |-> error, verified |-> FALSE, common_name |-> 0, error |-> "None"]

\* Variant of verify_issuer_signature: the registry of the anchors is built
\* before the x5chain header is read
verify_issuer_signature_RegistryFirst(self, trust_anchors, chaining) ==
  LET has == MdocHasAnchors(trust_anchors)
      st == MdocLoop(LoopInit(IF has THEN MdocPemAnchors(trust_anchors) ELSE <<>>,
                              self.x5chain, has /\ chaining))
      x5chain == X5ChainCerts(self.x5chain)
  IN IF has /\ ~RegistryOk(st.pem_anchors)
     THEN NoIssuerVerification("Err:TrustAnchorRegistryError")
     ELSE IF self.x5chain.kind = "Missing"
     THEN NoIssuerVerification("Err:X5ChainMissing")
     ELSE IF ~Parses(self)
     THEN NoIssuerVerification("Err:X5ChainParsing")
     ELSE IF has /\ ~(MdlAnchored(x5chain, Registry(st.pem_anchors))
                      /\ self.doc.issuer # "rules_error")
     THEN NoIssuerVerification("Err:X5ChainValidationFailed")
     ELSE IF self.doc.issuer # "bad_signature"
     THEN [result |-> "Ok", verified |-> TRUE,
           common_name |-> IF x5chain = <<>> THEN 0 ELSE x5chain[1].subject,
           error |-> "None"]
     ELSE NoIssuerVerification("Err:IssuerAuthFailed")

\* Variant of verify_issuer_signature: the issuer signature is verified before
\* the chain is validated
verify_issuer_signature_SignatureFirst(self, trust_anchors, chaining) ==
  LET has == MdocHasAnchors(trust_anchors)
      st == MdocLoop(LoopInit(IF has THEN MdocPemAnchors(trust_anchors) ELSE <<>>,
                              self.x5chain, has /\ chaining))
      x5chain == X5ChainCerts(self.x5chain)
  IN IF self.x5chain.kind = "Missing"
     THEN NoIssuerVerification("Err:X5ChainMissing")
     ELSE IF ~Parses(self)
     THEN NoIssuerVerification("Err:X5ChainParsing")
     ELSE IF has /\ ~RegistryOk(st.pem_anchors)
     THEN NoIssuerVerification("Err:TrustAnchorRegistryError")
     ELSE IF self.doc.issuer = "bad_signature"
     THEN NoIssuerVerification("Err:IssuerAuthFailed")
     ELSE IF has /\ ~(MdlAnchored(x5chain, Registry(st.pem_anchors))
                      /\ self.doc.issuer # "rules_error")
     THEN NoIssuerVerification("Err:X5ChainValidationFailed")
     ELSE [result |-> "Ok", verified |-> TRUE,
           common_name |-> IF x5chain = <<>> THEN 0 ELSE x5chain[1].subject,
           error |-> "None"]

\* Variant of verify_issuer_signature: a failed issuer signature is reported
\* in the result, with verified = false
verify_issuer_signature_Unverified(self, trust_anchors, chaining) ==
  LET has == MdocHasAnchors(trust_anchors)
      st == MdocLoop(LoopInit(IF has THEN MdocPemAnchors(trust_anchors) ELSE <<>>,
                              self.x5chain, has /\ chaining))
      x5chain == X5ChainCerts(self.x5chain)
  IN IF self.x5chain.kind = "Missing"
     THEN NoIssuerVerification("Err:X5ChainMissing")
     ELSE IF ~Parses(self)
     THEN NoIssuerVerification("Err:X5ChainParsing")
     ELSE IF has /\ ~RegistryOk(st.pem_anchors)
     THEN NoIssuerVerification("Err:TrustAnchorRegistryError")
     ELSE IF has /\ ~(MdlAnchored(x5chain, Registry(st.pem_anchors))
                      /\ self.doc.issuer # "rules_error")
     THEN NoIssuerVerification("Err:X5ChainValidationFailed")
     ELSE IF self.doc.issuer # "bad_signature"
     THEN [result |-> "Ok", verified |-> TRUE,
           common_name |-> IF x5chain = <<>> THEN 0 ELSE x5chain[1].subject,
           error |-> "None"]
     ELSE [result |-> "Ok", verified |-> FALSE,
           common_name |-> IF x5chain = <<>> THEN 0 ELSE x5chain[1].subject,
           error |-> "IssuerAuthFailed"]

\* Mdoc::verify_issuer_signature.  The namespaces of an Mdoc are non-empty
\* maps, so the two "Internal error" conversions do not fail.
verify_issuer_signature(self, trust_anchors, chaining) ==
  LET has == MdocHasAnchors(trust_anchors)
      st == MdocLoop(LoopInit(IF has THEN MdocPemAnchors(trust_anchors) ELSE <<>>,
                              self.x5chain, has /\ chaining))
      x5chain == X5ChainCerts(self.x5chain)
  IN IF self.x5chain.kind = "Missing"
     THEN NoIssuerVerification("Err:X5ChainMissing")
     ELSE IF ~Parses(self)
     THEN NoIssuerVerification("Err:X5ChainParsing")
     ELSE IF has /\ ~RegistryOk(st.pem_anchors)
     THEN NoIssuerVerification("Err:TrustAnchorRegistryError")
     ELSE IF has /\ ~(MdlAnchored(x5chain, Registry(st.pem_anchors))
                      /\ self.doc.issuer # "rules_error")
     THEN NoIssuerVerification("Err:X5ChainValidationFailed")
     ELSE IF self.doc.issuer # "bad_signature"
     THEN [result |-> "Ok", verified |-> TRUE,
           common_name |-> IF x5chain = <<>> THEN 0 ELSE x5chain[1].subject,
           error |-> "None"]
     ELSE NoIssuerVerification("Err:IssuerAuthFailed")

\* MdocVerifier::verify_issuer_cert
verify_issuer_cert(mdoc, trust_anchor_count) ==
  IF trust_anchor_count = 0 THEN TRUE ELSE TRUE

\* Err(VerifierError)
NoVerificationResult(error) == [result |-> error, valid |-> FALSE, data |-> {}]

\* MdocVerifier::verify
verify(mdoc_string, trust_anchor_pems) ==
  LET trust_anchors == SelectSeq(trust_anchor_pems, from_pem_ok)
      is_trusted == verify_issuer_cert(mdoc_string, Len(trust_anchors))
  IN IF ~mdoc_string.doc.decodes
     THEN NoVerificationResult("Err:VerificationFailed")
     ELSE [result |-> "Ok", valid |-> is_trusted, data |-> mdoc_string.doc.elements]

(* ---------------------------------------------------------------------- *)
(* State                                                                   *)
(* ---------------------------------------------------------------------- *)
VARIABLES anchors, x5chain_cbor, use_intermediate_chaining, pc, reader, mdoc,
          reader_result, mdoc_result,
          engaged, in_process, qr_code_uri, ble_ident, last, generated,
          threads, engaged_lock, in_process_lock,
          established, response_data,
          document, verified, callers

resolverVars == <<anchors, x5chain_cbor, use_intermediate_chaining, pc, reader, mdoc,
                  reader_result, mdoc_result>>

\* engaged, in_process, qr_code_uri, ble_ident: the fields of the session;
\* last: the latest call and what it returned; generated: generate_response has
\* been called since the latest request was received.
holderVars == <<engaged, in_process, qr_code_uri, ble_ident, last, generated>>

\* threads: each thread's position in the call it is running on the holder
\* session; engaged_lock, in_process_lock: the threads holding a guard of the
\* mutex of that name.
threadVars == <<threads, engaged_lock, in_process_lock>>

\* established: the latest establish_session call and what it returned;
\* response_data: the latest handle_response call on the state it returned.
sessionVars == <<established, response_data>>

\* document: what the bytes handed to a verification entry point hold besides
\* the x5chain header; verified: the latest call of an entry point and what it
\* returned; callers: the position, arguments and local variables of each
\* thread inside a call of verify_oid4vp_response.
verifyVars == <<document, verified, callers>>

vars == <<resolverVars, holderVars, threadVars, sessionVars, verifyVars>>

\* MdlPresentationSession::new(mdoc, uuid)
HolderNew(uuid) ==
  /\ engaged = uuid
  /\ in_process = NoRecord
  /\ qr_code_uri = uuid
  /\ ble_ident = uuid
  /\ last = [op |-> "new", signature |-> "none", result |-> "Ok", value |-> uuid]
  /\ generated = FALSE

\* no thread is inside a call and no mutex is held
IdleThreads ==
  /\ threads = [t \in Thread |-> IdleThread]
  /\ engaged_lock = {}
  /\ in_process_lock = {}

\* establish_session has not been called, nor handle_response on its session
NoReaderSession ==
  /\ established = [uri |-> CHOOSE uri \in EngagementUri : ~uri.parses,
                    requested_items |-> [has_doc |-> FALSE, elements |-> {}],
                    trust_anchor_registry |-> [some |-> FALSE, list |-> <<>>],
                    data |-> NoSessionData("none")]
  /\ response_data = [response |-> CHOOSE r \in ResponseBytes : ~r.decrypts,
                      data |-> NoResponseData("none")]

\* no verification entry point has been called
NotVerified ==
  [entry |-> "none", client_id |-> "none", response_uri |-> "none", nonce |-> "none",
   data |-> NoVerifiedData("none")]

\* a thread that has not called verify_oid4vp_response
IdleCaller ==
  [pc |-> "idle", client_id |-> "none", response_uri |-> "none", nonce |-> "none",
   transcript |-> <<>>, pem_anchors |-> <<>>, data |-> NoVerifiedData("none")]

NoVerification ==
  /\ document = Garbage
  /\ verified = NotVerified
  /\ callers = [t \in Thread |-> IdleCaller]

NoLoop == LoopInit(<<>>, [kind |-> "Missing", items |-> <<>>], FALSE)

Init ==
  /\ anchors \in AnchorsInput
  /\ x5chain_cbor \in X5ChainCbor
  /\ use_intermediate_chaining \in BOOLEAN
  /\ pc = "reader_start"
  /\ reader = NoLoop
  /\ mdoc = NoLoop
  /\ reader_result = "pending"
  /\ mdoc_result = "pending"
  /\ HolderNew(1)
  /\ IdleThreads
  /\ NoReaderSession
  /\ NoVerification

(* ---- verify_oid4vp_response ------------------------------------------- *)
\* reader::parse and the construction of pem_anchors, trusted_certs, candidates
ReaderStart ==
  /\ pc = "reader_start"
  /\ \E parse_ok \in ParseOutcomes(x5chain_cbor) :
       IF ~parse_ok
       THEN /\ reader_result' = "ParseError"
            /\ pc' = "mdoc_start"
            /\ UNCHANGED reader
       ELSE LET st == LoopInit(IF anchors.some THEN ReaderPemAnchors(anchors) ELSE <<>>,
                               x5chain_cbor,
                               anchors.some /\ use_intermediate_chaining)
            IN /\ reader' = st
               /\ pc' = IF st.progress THEN "reader_loop" ELSE "reader_validate"
               /\ UNCHANGED reader_result
  /\ UNCHANGED <<anchors, x5chain_cbor, use_intermediate_chaining, mdoc, mdoc_result>>
  /\ UNCHANGED <<holderVars, threadVars, sessionVars, verifyVars>>

ReaderPass ==
  /\ pc = "reader_loop"
  /\ reader.progress
  /\ reader' = ReaderPassOf(reader)
  /\ pc' = IF reader'.progress THEN "reader_loop" ELSE "reader_validate"
  /\ UNCHANGED <<anchors, x5chain_cbor, use_intermediate_chaining, mdoc,
                 reader_result, mdoc_result>>
  /\ UNCHANGED <<holderVars, threadVars, sessionVars, verifyVars>>

\* registry construction and validate_response
ReaderValidate ==
  /\ pc = "reader_validate"
  /\ \E rules_ok \in BOOLEAN, issuer_sig_ok \in BOOLEAN :
       reader_result' =
         IF ~RegistryOk(reader.pem_anchors) THEN "RegistryError"
         ELSE IF Registry(reader.pem_anchors) = {} THEN "IssuerUnchecked"
         ELSE IF ~(MdlAnchored(X5ChainCerts(x5chain_cbor), Registry(reader.pem_anchors)) /\ rules_ok)
              THEN "IssuerInvalid"
         ELSE IF issuer_sig_ok THEN "IssuerValid" ELSE "IssuerInvalid"
  /\ pc' = "mdoc_start"
  /\ UNCHANGED <<anchors, x5chain_cbor, use_intermediate_chaining, reader, mdoc, mdoc_result>>
  /\ UNCHANGED <<holderVars, threadVars, sessionVars, verifyVars>>

(* ---- Mdoc::verify_issuer_signature ------------------------------------ *)
MdocStart ==
  /\ pc = "mdoc_start"
  /\ IF x5chain_cbor.kind = "Missing"
     THEN /\ mdoc_result' = "X5ChainMissing"
          /\ pc' = "done"
          /\ UNCHANGED mdoc
     ELSE \E parse_ok \in ParseOutcomes(x5chain_cbor) :
            IF ~parse_ok
            THEN /\ mdoc_result' = "X5ChainParsing"
                 /\ pc' = "done"
                 /\ UNCHANGED mdoc
            ELSE LET st == LoopInit(IF MdocHasAnchors(anchors) THEN MdocPemAnchors(anchors) ELSE <<>>,
                                    x5chain_cbor,
                                    MdocHasAnchors(anchors) /\ use_intermediate_chaining)
                 IN /\ mdoc' = st
                    /\ pc' = IF st.progress THEN "mdoc_loop" ELSE "mdoc_validate"
                    /\ UNCHANGED mdoc_result
  /\ UNCHANGED <<anchors, x5chain_cbor, use_intermediate_chaining, reader, reader_result>>
  /\ UNCHANGED <<holderVars, threadVars, sessionVars, verifyVars>>

MdocPass ==
  /\ pc = "mdoc_loop"
  /\ mdoc.progress
  /\ mdoc' = MdocPassOf(mdoc)
  /\ pc' = IF mdoc'.progress THEN "mdoc_loop" ELSE "mdoc_validate"
  /\ UNCHANGED <<anchors, x5chain_cbor, use_intermediate_chaining, reader,
                 reader_result, mdoc_result>>
  /\ UNCHANGED <<holderVars, threadVars, sessionVars, verifyVars>>

\* registry construction, ruleset validation and issuer_authentication
MdocValidate ==
  /\ pc = "mdoc_validate"
  /\ \E rules_ok \in BOOLEAN, issuer_sig_ok \in BOOLEAN :
       mdoc_result' =
         IF MdocHasAnchors(anchors) /\ ~RegistryOk(mdoc.pem_anchors) THEN "TrustAnchorRegistryError"
         ELSE IF MdocHasAnchors(anchors)
                 /\ ~(MdlAnchored(X5ChainCerts(x5chain_cbor), Registry(mdoc.pem_anchors)) /\ rules_ok)
              THEN "X5ChainValidationFailed"
         ELSE IF issuer_sig_ok THEN "Ok" ELSE "IssuerAuthFailed"
  /\ pc' = "done"
  /\ UNCHANGED <<anchors, x5chain_cbor, use_intermediate_chaining, reader, mdoc, reader_result>>
  /\ UNCHANGED <<holderVars, threadVars, sessionVars, verifyVars>>

Next ==
  \/ ReaderStart
  \/ ReaderPass
  \/ ReaderValidate
  \/ MdocStart
  \/ MdocPass
  \/ MdocValidate

Spec == Init /\ [][Next]_vars


(* ---- MdlPresentationSession ------------------------------------------- *)
InitHolder ==
  /\ anchors = [some |-> FALSE, list |-> <<>>]
  /\ x5chain_cbor = [kind |-> "Missing", items |-> <<>>]
  /\ use_intermediate_chaining = FALSE
  /\ pc = "done"
  /\ reader = NoLoop
  /\ mdoc = NoLoop
  /\ reader_result = "pending"
  /\ mdoc_result = "pending"
  /\ \E uuid \in 1..NumUuid : HolderNew(uuid)
  /\ IdleThreads
  /\ NoReaderSession
  /\ NoVerification

HandleRequest ==
  \E request \in RequestBytes :
     LET r == handle_request(engaged, in_process, request)
     IN /\ in_process' = r.in_process
        /\ last' = [op |-> "handle_request", signature |-> "none", result |-> r.result,
                    value |-> r.value]
        /\ generated' = IF r.result = "Ok" THEN FALSE ELSE generated
        /\ UNCHANGED <<engaged, qr_code_uri, ble_ident>>
        /\ UNCHANGED <<resolverVars, threadVars, sessionVars, verifyVars>>

GenerateResponse ==
  \E permitted \in PermittedItems :
     LET r == generate_response(in_process, permitted)
     IN /\ in_process' = r.in_process
        /\ last' = [op |-> "generate_response", signature |-> "none",
                    result |-> r.result, value |-> r.value]
        /\ generated' = TRUE
        /\ UNCHANGED <<engaged, qr_code_uri, ble_ident>>
        /\ UNCHANGED <<resolverVars, threadVars, sessionVars, verifyVars>>

SubmitResponse ==
  \E signature \in SignatureBytes :
     LET r == submit_response(in_process, signature)
     IN /\ in_process' = r.in_process
        /\ last' = [op |-> "submit_response", signature |-> signature,
                    result |-> r.result, value |-> r.value]
        /\ UNCHANGED <<engaged, qr_code_uri, ble_ident, generated>>
        /\ UNCHANGED <<resolverVars, threadVars, sessionVars, verifyVars>>

\* Variant of terminate_session: the stored session is moved to a terminated
\* state in which no signature is accepted
TerminateSession_Terminated ==
  /\ last' = [op |-> "terminate_session", signature |-> "none",
              result |-> terminate_session.result, value |-> terminate_session.value]
  /\ in_process' = IF in_process.some
                   THEN InProcessRecord([in_process.session EXCEPT !.state = "Terminated"],
                                        in_process.items_request)
                   ELSE in_process
  /\ UNCHANGED <<engaged, qr_code_uri, ble_ident, generated>>
  /\ UNCHANGED <<resolverVars, threadVars, sessionVars, verifyVars>>

\* Variant of terminate_session: only a completed exchange can be terminated
TerminateSession_AfterCompletion ==
  /\ in_process.some
  /\ in_process.session.state = "Completed"
  /\ last' = [op |-> "terminate_session", signature |-> "none",
              result |-> terminate_session.result, value |-> terminate_session.value]
  /\ UNCHANGED <<engaged, in_process, qr_code_uri, ble_ident, generated>>
  /\ UNCHANGED <<resolverVars, threadVars, sessionVars, verifyVars>>

TerminateSession ==
  /\ last' = [op |-> "terminate_session", signature |-> "none",
              result |-> terminate_session.result, value |-> terminate_session.value]
  /\ UNCHANGED <<engaged, in_process, qr_code_uri, ble_ident, generated>>
  /\ UNCHANGED <<resolverVars, threadVars, sessionVars, verifyVars>>

GetQrCodeUri ==
  /\ last' = [op |-> "get_qr_code_uri", signature |-> "none", result |-> "Ok",
              value |-> get_qr_code_uri(qr_code_uri)]
  /\ UNCHANGED <<engaged, in_process, qr_code_uri, ble_ident, generated>>
  /\ UNCHANGED <<resolverVars, threadVars, sessionVars, verifyVars>>

GetBleIdent ==
  /\ last' = [op |-> "get_ble_ident", signature |-> "none", result |-> "Ok",
              value |-> get_ble_ident(ble_ident)]
  /\ UNCHANGED <<engaged, in_process, qr_code_uri, ble_ident, generated>>
  /\ UNCHANGED <<resolverVars, threadVars, sessionVars, verifyVars>>

NextHolder ==
  \/ HandleRequest
  \/ GenerateResponse
  \/ SubmitResponse
  \/ TerminateSession
  \/ GetQrCodeUri
  \/ GetBleIdent

SpecHolder == InitHolder /\ [][NextHolder]_vars

(* ---- MdlPresentationSession called from several threads --------------- *)
\* the steps of a call, the mutexes taken and released as the code does
InitThreads == InitHolder

ThreadFrame == UNCHANGED <<resolverVars, engaged, qr_code_uri, ble_ident, last,
                           generated, sessionVars, verifyVars>>

At(t, pc_t) == threads[t].pc = pc_t

Goto(t, pc_t, request, result) ==
  threads' = [threads EXCEPT ![t] = [pc |-> pc_t, request |-> request,
                                     result |-> result]]

\* handle_request: isomdl::cbor::from_slice(&request)
HrDecode(t) ==
  /\ At(t, "idle")
  /\ \E request \in RequestBytes :
        IF request.decodable
        THEN Goto(t, "hr_lock_engaged", request, "none")
        ELSE Goto(t, "hr_failed", NoRequest, "Err:Generic:deserialize")
  /\ UNCHANGED <<in_process, engaged_lock, in_process_lock>>
  /\ ThreadFrame

\* handle_request: self.engaged.lock()
HrLockEngaged(t) ==
  /\ At(t, "hr_lock_engaged")
  /\ engaged_lock = {}
  /\ engaged_lock' = {t}
  /\ Goto(t, "hr_establish", threads[t].request, "none")
  /\ UNCHANGED <<in_process, in_process_lock>>
  /\ ThreadFrame

\* Variant of HrEstablish: the guard of engaged is kept for the rest of the call
HrEstablish_KeepGuard(t) ==
  /\ At(t, "hr_establish")
  /\ engaged_lock' = engaged_lock
  /\ IF process_session_establishment(engaged, threads[t].request).ok
     THEN Goto(t, "hr_lock_in_process", threads[t].request, "none")
     ELSE Goto(t, "hr_failed", NoRequest, "Err:Generic:establishment")
  /\ UNCHANGED <<in_process, in_process_lock>>
  /\ ThreadFrame

\* handle_request: clone().process_session_establishment(..); the guard of
\* engaged is dropped with the statement
HrEstablish(t) ==
  /\ At(t, "hr_establish")
  /\ engaged_lock' = engaged_lock \ {t}
  /\ IF process_session_establishment(engaged, threads[t].request).ok
     THEN Goto(t, "hr_lock_in_process", threads[t].request, "none")
     ELSE Goto(t, "hr_failed", NoRequest, "Err:Generic:establishment")
  /\ UNCHANGED <<in_process, in_process_lock>>
  /\ ThreadFrame

\* handle_request: the error is returned by `?`, no mutex held
HrFail(t) ==
  /\ At(t, "hr_failed")
  /\ Goto(t, "idle", NoRequest, "none")
  /\ UNCHANGED <<in_process, engaged_lock, in_process_lock>>
  /\ ThreadFrame

\* Variant of HrLockInProcess: the pending exchange is taken without waiting
\* for the mutex
HrLockInProcess_NoWait(t) ==
  /\ At(t, "hr_lock_in_process")
  /\ in_process_lock' = in_process_lock \cup {t}
  /\ Goto(t, "hr_store", threads[t].request, "none")
  /\ UNCHANGED <<in_process, engaged_lock>>
  /\ ThreadFrame

\* handle_request: self.in_process.lock()
HrLockInProcess(t) ==
  /\ At(t, "hr_lock_in_process")
  /\ in_process_lock = {}
  /\ in_process_lock' = {t}
  /\ Goto(t, "hr_store", threads[t].request, "none")
  /\ UNCHANGED <<in_process, engaged_lock>>
  /\ ThreadFrame

\* Variant of HrStore: the session context is stored and the requested items
\* of the exchange that was pending are kept
HrStore_KeepItems(t) ==
  /\ At(t, "hr_store")
  /\ LET est == process_session_establishment(engaged, threads[t].request)
     IN in_process' = InProcessRecord(est.session,
                                      IF in_process.some THEN in_process.items_request
                                      ELSE est.items_request)
  /\ Goto(t, "hr_return", NoRequest, "Ok")
  /\ UNCHANGED <<engaged_lock, in_process_lock>>
  /\ ThreadFrame

\* handle_request: *in_process = Some(InProcessRecord {..})
HrStore(t) ==
  /\ At(t, "hr_store")
  /\ LET est == process_session_establishment(engaged, threads[t].request)
     IN in_process' = InProcessRecord(est.session, est.items_request)
  /\ Goto(t, "hr_return", NoRequest, "Ok")
  /\ UNCHANGED <<engaged_lock, in_process_lock>>
  /\ ThreadFrame

\* handle_request: Ok(..), the guard of in_process is dropped on return
HrReturn(t) ==
  /\ At(t, "hr_return")
  /\ in_process_lock' = in_process_lock \ {t}
  /\ Goto(t, "idle", NoRequest, "none")
  /\ UNCHANGED <<in_process, engaged_lock>>
  /\ ThreadFrame

\* generate_response: self.in_process.lock().unwrap()
GrLock(t) ==
  /\ At(t, "idle")
  /\ in_process_lock = {}
  /\ in_process_lock' = {t}
  /\ Goto(t, "gr_prepare", NoRequest, "none")
  /\ UNCHANGED <<in_process, engaged_lock>>
  /\ ThreadFrame

\* generate_response: if let Some(in_process) .. prepare_response(..)
GrPrepare(t) ==
  /\ At(t, "gr_prepare")
  /\ IF in_process.some
     THEN /\ \E permitted \in PermittedItems :
               in_process' = InProcessRecord(
                                prepare_response(in_process.session,
                                                 in_process.items_request, permitted),
                                in_process.items_request)
          /\ Goto(t, "gr_payload", NoRequest, "none")
     ELSE /\ UNCHANGED in_process
          /\ Goto(t, "gr_return", NoRequest, "Err:Generic:no_session")
  /\ UNCHANGED <<engaged_lock, in_process_lock>>
  /\ ThreadFrame

\* generate_response: get_next_signature_payload()
GrPayload(t) ==
  /\ At(t, "gr_payload")
  /\ Goto(t, "gr_return", NoRequest,
          IF get_next_signature_payload(in_process.session).some
          THEN "Ok" ELSE "Err:Generic:no_payload")
  /\ UNCHANGED <<in_process, engaged_lock, in_process_lock>>
  /\ ThreadFrame

\* generate_response: the guard of in_process is dropped on return
GrReturn(t) ==
  /\ At(t, "gr_return")
  /\ in_process_lock' = in_process_lock \ {t}
  /\ Goto(t, "idle", NoRequest, "none")
  /\ UNCHANGED <<in_process, engaged_lock>>
  /\ ThreadFrame

\* submit_response: p256::ecdsa::Signature::from_slice(&signature)
SrParse(t) ==
  /\ At(t, "idle")
  /\ \E signature \in SignatureBytes :
        IF signature = "p256"
        THEN Goto(t, "sr_lock", NoRequest, "none")
        ELSE Goto(t, "sr_failed", NoRequest, "Err:InvalidSignature")
  /\ UNCHANGED <<in_process, engaged_lock, in_process_lock>>
  /\ ThreadFrame

\* submit_response: the InvalidSignature error is returned by `?`
SrFail(t) ==
  /\ At(t, "sr_failed")
  /\ Goto(t, "idle", NoRequest, "none")
  /\ UNCHANGED <<in_process, engaged_lock, in_process_lock>>
  /\ ThreadFrame

\* submit_response: self.in_process.lock().unwrap()
SrLock(t) ==
  /\ At(t, "sr_lock")
  /\ in_process_lock = {}
  /\ in_process_lock' = {t}
  /\ Goto(t, "sr_submit", NoRequest, "none")
  /\ UNCHANGED <<in_process, engaged_lock>>
  /\ ThreadFrame

\* submit_response: if let Some(in_process) .. submit_next_signature(..)
SrSubmit(t) ==
  /\ At(t, "sr_submit")
  /\ IF ~in_process.some
     THEN /\ UNCHANGED in_process
          /\ Goto(t, "sr_return", NoRequest, "Err:Generic:no_session")
     ELSE LET sub == submit_next_signature(in_process.session)
          IN IF sub.ok
             THEN /\ in_process' = InProcessRecord(sub.session, in_process.items_request)
                  /\ Goto(t, "sr_retrieve", NoRequest, "none")
             ELSE /\ UNCHANGED in_process
                  /\ Goto(t, "sr_return", NoRequest, "Err:Generic:submit")
  /\ UNCHANGED <<engaged_lock, in_process_lock>>
  /\ ThreadFrame

\* submit_response: retrieve_response().ok_or(TooManyDocuments)
SrRetrieve(t) ==
  /\ At(t, "sr_retrieve")
  /\ Goto(t, "sr_return", NoRequest,
          IF retrieve_response(in_process.session).some
          THEN "Ok" ELSE "Err:TooManyDocuments")
  /\ UNCHANGED <<in_process, engaged_lock, in_process_lock>>
  /\ ThreadFrame

\* submit_response: the guard of in_process is dropped on return
SrReturn(t) ==
  /\ At(t, "sr_return")
  /\ in_process_lock' = in_process_lock \ {t}
  /\ Goto(t, "idle", NoRequest, "none")
  /\ UNCHANGED <<in_process, engaged_lock>>
  /\ ThreadFrame

\* terminate_session: the message is built, no mutex is taken
TsTerminate(t) ==
  /\ At(t, "idle")
  /\ Goto(t, "ts_return", NoRequest, terminate_session.result)
  /\ UNCHANGED <<in_process, engaged_lock, in_process_lock>>
  /\ ThreadFrame

\* terminate_session: Ok(msg_bytes)
TsReturn(t) ==
  /\ At(t, "ts_return")
  /\ Goto(t, "idle", NoRequest, "none")
  /\ UNCHANGED <<in_process, engaged_lock, in_process_lock>>
  /\ ThreadFrame

NextThreads ==
  \E t \in Thread :
     \/ HrDecode(t)
     \/ HrLockEngaged(t)
     \/ HrEstablish(t)
     \/ HrFail(t)
     \/ HrLockInProcess(t)
     \/ HrStore(t)
     \/ HrReturn(t)
     \/ GrLock(t)
     \/ GrPrepare(t)
     \/ GrPayload(t)
     \/ GrReturn(t)
     \/ SrParse(t)
     \/ SrFail(t)
     \/ SrLock(t)
     \/ SrSubmit(t)
     \/ SrRetrieve(t)
     \/ SrReturn(t)
     \/ TsTerminate(t)
     \/ TsReturn(t)

SpecThreads == InitThreads /\ [][NextThreads]_vars

\* a step of thread t inside a call that waits for nothing
Runs(t) ==
  \/ HrEstablish(t)
  \/ HrFail(t)
  \/ HrStore(t)
  \/ HrReturn(t)
  \/ GrPrepare(t)
  \/ GrPayload(t)
  \/ GrReturn(t)
  \/ SrFail(t)
  \/ SrSubmit(t)
  \/ SrRetrieve(t)
  \/ SrReturn(t)
  \/ TsReturn(t)

\* a step of thread t inside a call that waits for a mutex: Mutex::lock()
Locks(t) ==
  \/ HrLockEngaged(t)
  \/ HrLockInProcess(t)
  \/ SrLock(t)

\* the threads are scheduled: a thread inside a call that can run does run, and
\* a thread blocked in lock() gets the mutex if it is released again and again
SpecThreadsFair ==
  /\ InitThreads
  /\ [][NextThreads]_vars
  /\ \A t \in Thread : WF_vars(Runs(t)) /\ SF_vars(Locks(t))

(* ---- Reader session ---------------------------------------------------- *)
InitReader == InitHolder

\* the anchors given to establish_session: none, an empty list, or one PEM,
\* well-formed or not (the registry is built from all of them or fails)
SessionAnchors == {a \in AnchorsInput : Len(a.list) <= 1}

\* the inputs of an establish_session call: any for the first call, the same
\* again for a later one
SessionInputs ==
  IF established.data.result = "none"
  THEN [uri : EngagementUri, requested_items : RequestedItems,
        trust_anchor_registry : SessionAnchors]
  ELSE {[uri |-> established.uri, requested_items |-> established.requested_items,
         trust_anchor_registry |-> established.trust_anchor_registry]}

\* establish_session(uri, requested_items, trust_anchor_registry); the
\* library draws the ephemeral reader key
EstablishSession ==
  /\ \E input \in SessionInputs, ekey \in ReaderKey :
        established' = [uri |-> input.uri, requested_items |-> input.requested_items,
                        trust_anchor_registry |-> input.trust_anchor_registry,
                        data |-> establish_session(input.uri, input.requested_items,
                                                   input.trust_anchor_registry, ekey)]
  /\ response_data' = [response |-> CHOOSE r \in ResponseBytes : ~r.decrypts,
                       data |-> NoResponseData("none")]
  /\ UNCHANGED <<resolverVars, holderVars, threadVars, verifyVars>>

\* the bytes of a handle_response call: any for the first call on a session,
\* the same again for a later one
ResponseInputs ==
  IF response_data.data.result = "none" THEN ResponseBytes
  ELSE {response_data.response}

\* Variant of handle_response: the session that was handed in is advanced in
\* place
HandleReaderResponse_InPlace ==
  /\ established.data.result = "Ok"
  /\ \E response \in ResponseInputs :
        LET data == handle_response(established.data.state, response)
        IN /\ response_data' = [response |-> response, data |-> data]
           /\ established' = [established EXCEPT !.data.state = data.state]
  /\ UNCHANGED <<resolverVars, holderVars, threadVars, verifyVars>>

\* handle_response(state, response) on the state of the established session
HandleReaderResponse ==
  /\ established.data.result = "Ok"
  /\ \E response \in ResponseInputs :
        response_data' = [response |-> response,
                          data |-> handle_response(established.data.state, response)]
  /\ UNCHANGED established
  /\ UNCHANGED <<resolverVars, holderVars, threadVars, verifyVars>>

NextReader ==
  \/ EstablishSession
  \/ HandleReaderResponse

SpecReader == InitReader /\ [][NextReader]_vars

(* ---- Verification entry points ----------------------------------------- *)
\* a document, anchors and a chaining flag, and one call of an entry point on
\* them
InitVerify ==
  /\ anchors \in VerifyAnchors
  /\ x5chain_cbor \in DocumentChain
  /\ use_intermediate_chaining \in BOOLEAN
  /\ document \in Document
  /\ document.lenient => ~WellFormed(x5chain_cbor)
  /\ ~document.decodes => x5chain_cbor.kind = "Missing"
  /\ verified = NotVerified
  /\ callers = [t \in Thread |-> IdleCaller]
  /\ pc = "done"
  /\ reader = NoLoop
  /\ mdoc = NoLoop
  /\ reader_result = "pending"
  /\ mdoc_result = "pending"
  /\ HolderNew(1)
  /\ IdleThreads
  /\ NoReaderSession

VerifyFrame ==
  UNCHANGED <<resolverVars, holderVars, threadVars, sessionVars, document, callers>>

\* verify_oid4vp_response(response, nonce, client_id, response_uri,
\*                        trust_anchor_registry, use_intermediate_chaining)
VerifyOid4vpResponse ==
  /\ verified = NotVerified
  /\ \E client_id \in ClientId, response_uri \in ResponseUri, nonce \in Nonce :
       verified' = [entry |-> "verify_oid4vp_response",
                    client_id |-> client_id, response_uri |-> response_uri,
                    nonce |-> nonce,
                    data |-> verify_oid4vp_response(BytesOf(document, x5chain_cbor),
                               nonce, client_id, response_uri, anchors,
                               use_intermediate_chaining)]
  /\ VerifyFrame

\* mdoc.verify_issuer_signature(trust_anchors, use_intermediate_chaining) on
\* the Mdoc decoded from the document
VerifyIssuerSignature ==
  /\ verified = NotVerified
  /\ document.decodes
  /\ verified' = [entry |-> "verify_issuer_signature",
                  client_id |-> "none", response_uri |-> "none", nonce |-> "none",
                  data |-> verify_issuer_signature(BytesOf(document, x5chain_cbor),
                             anchors, use_intermediate_chaining)]
  /\ VerifyFrame

\* MdocVerifier::verify(mdoc_string, trust_anchor_pems)
MdocVerifierVerify ==
  /\ verified = NotVerified
  /\ verified' = [entry |-> "verify",
                  client_id |-> "none", response_uri |-> "none", nonce |-> "none",
                  data |-> verify(BytesOf(document, x5chain_cbor), anchors.list)]
  /\ VerifyFrame

NextVerify ==
  \/ VerifyOid4vpResponse
  \/ VerifyIssuerSignature
  \/ MdocVerifierVerify

SpecVerify == InitVerify /\ [][NextVerify]_vars

(* ---- verify_oid4vp_response called from several threads --------------- *)
\* every thread presents the same response and anchors under its own client
\* id, response URI and nonce; the steps of a call read and write the locals of
\* the call
InitCallers ==
  /\ InitVerify
  /\ Len(x5chain_cbor.items) < MaxChain
  /\ ~document.lenient
  /\ document.decodes => document.elements = {1}

\* the client id, response URI and nonce of a call: those the device signed,
\* or others in one of the three
CallerHandover ==
  {h \in [client_id : ClientId, response_uri : ResponseUri, nonce : Nonce] :
     /\ h.client_id = "client_a" \/ h.response_uri = "uri_a"
     /\ h.client_id = "client_a" \/ h.nonce = "nonce_a"
     /\ h.response_uri = "uri_a" \/ h.nonce = "nonce_a"}

CallerFrame ==
  UNCHANGED <<resolverVars, holderVars, threadVars, sessionVars, document, verified>>

CallerAt(t, pc_t) == callers[t].pc = pc_t

\* the call returns
CallReturn(t, data) ==
  callers' = [callers EXCEPT ![t].pc = "returned", ![t].data = data]

\* Variant of TranscriptOf: one transcript slot for all the calls
TranscriptOf_Shared(t) == callers[1].transcript

\* the transcript a call hands to validate_response: its local variable
TranscriptOf(t) == callers[t].transcript

\* 1. parse the DeviceResponse; 2. build the session transcript
CallDecode(t) ==
  /\ CallerAt(t, "idle")
  /\ \E h \in CallerHandover :
       IF ~document.decodes
       THEN callers' = [callers EXCEPT
                          ![t] = [@ EXCEPT !.pc = "returned", !.client_id = h.client_id,
                                           !.response_uri = h.response_uri,
                                           !.nonce = h.nonce,
                                           !.data = NoVerifiedData(
                                              "Err:Generic:Unable to parse DeviceResponse")]]
       ELSE callers' = [callers EXCEPT
                          ![t] = [@ EXCEPT !.pc = "decoded", !.client_id = h.client_id,
                                           !.response_uri = h.response_uri,
                                           !.nonce = h.nonce,
                                           !.transcript =
                                              session_transcript(h.nonce, h.client_id,
                                                                 h.response_uri)]]
  /\ CallerFrame

\* 3. reader::parse, the anchor records and the chaining loop
CallResolve(t) ==
  /\ CallerAt(t, "decoded")
  /\ IF ~Parses(BytesOf(document, x5chain_cbor))
     THEN CallReturn(t, NoVerifiedData("Err:Generic:Failed to parse device response"))
     ELSE IF anchors.some /\ \E i \in 1..Len(anchors.list) : ~from_json_ok(anchors.list[i])
     THEN CallReturn(t, NoVerifiedData("Err:Generic:Invalid trust anchor JSON"))
     ELSE callers' = [callers EXCEPT
            ![t].pc = "resolved",
            ![t].pem_anchors =
               ReaderLoop(LoopInit(IF anchors.some THEN ReaderPemAnchors(anchors) ELSE <<>>,
                                   x5chain_cbor,
                                   anchors.some /\ use_intermediate_chaining)).pem_anchors]
  /\ CallerFrame

\* the registry, validate_response and the conversion of its outcome
CallValidate(t) ==
  /\ CallerAt(t, "resolved")
  /\ IF ~RegistryOk(callers[t].pem_anchors)
     THEN CallReturn(t, NoVerifiedData("Err:Generic:Failed to create trust registry"))
     ELSE LET validated == validate_response(TranscriptOf(t),
                             Registry(callers[t].pem_anchors),
                             BytesOf(document, x5chain_cbor))
          IN CallReturn(t,
               [result |-> "Ok", session_transcript |-> TranscriptOf(t),
                verified_response |-> {[namespace |-> ns.namespace, items |-> ns.items] :
                                         ns \in {n \in validated.response : n.is_object}},
                issuer_authentication |->
                  AuthenticationStatus(validated.issuer_authentication),
                device_authentication |->
                  AuthenticationStatus(validated.device_authentication),
                errors |-> [some |-> validated.errors # {}, json |-> validated.errors]])
  /\ CallerFrame

NextCallers ==
  \E t \in Thread :
     \/ CallDecode(t)
     \/ CallResolve(t)
     \/ CallValidate(t)

SpecCallers == InitCallers /\ [][NextCallers]_vars

TypeOK ==
  /\ pc \in {"reader_start", "reader_loop", "reader_validate",
             "mdoc_start", "mdoc_loop", "mdoc_validate", "done"}
  /\ reader.passes \in Nat
  /\ mdoc.passes \in Nat
(* ====================================================================== *)
(* Properties of the resolution loop                                       *)
(* ====================================================================== *)
\* the loop of a copy has been set up (pem_anchors built from the anchors)
ReaderRan == pc # "reader_start" /\ reader_result # "ParseError"

MdocRan == pc \in {"mdoc_loop", "mdoc_validate", "done"}
             /\ mdoc_result \notin {"X5ChainMissing", "X5ChainParsing"}

ReaderChained == ReaderRan /\ anchors.some /\ use_intermediate_chaining
                   /\ x5chain_cbor.kind = "Array"

MdocChained == MdocRan /\ MdocHasAnchors(anchors) /\ use_intermediate_chaining
                 /\ x5chain_cbor.kind = "Array"

\* C1: in both copies the trusted anchor list contains every supplied anchor
\* after every pass, and no step removes an entry from it.
C1_AnchorsKept ==
  [][/\ Range(reader.pem_anchors) \subseteq Range(reader'.pem_anchors)
     /\ Range(mdoc.pem_anchors) \subseteq Range(mdoc'.pem_anchors)
     /\ (ReaderRan' /\ anchors.some
           => Range(ReaderPemAnchors(anchors)) \subseteq Range(reader'.pem_anchors))
     /\ (MdocRan' /\ MdocHasAnchors(anchors)
           => Range(MdocPemAnchors(anchors)) \subseteq Range(mdoc'.pem_anchors))]_vars

C1_Witness ==
  /\ pc = "reader_validate"
  /\ reader.passes >= 2
  /\ anchors.list # <<>>
  /\ Len(reader.pem_anchors) > Len(anchors.list)

\* C2: a candidate without the CA basic-constraint never enters the trusted
\* certificates of either copy, so it is never a trust source for a candidate.
C2_NonCaNeverTrusted ==
  \A c \in Range(reader.trusted_certs) \cup Range(mdoc.trusted_certs) : is_ca(c)

\* C3: in every pass of either copy, each certificate the pass promotes has an
\* issuer DN equal to the subject DN of a certificate of the trusted set.
C3_PromotedHasTrustedIssuer ==
  [][/\ (pc = "reader_loop" =>
           \A k \in (Len(reader.pem_anchors) + 1)..Len(reader'.pem_anchors) :
              \E t \in Range(reader.trusted_certs) :
                 from_pem(reader'.pem_anchors[k].certificate_pem).issuer = t.subject)
     /\ (pc = "mdoc_loop" =>
           \A k \in (Len(mdoc.pem_anchors) + 1)..Len(mdoc'.pem_anchors) :
              \E t \in Range(mdoc.trusted_certs) :
                 from_pem(mdoc'.pem_anchors[k].certificate_pem).issuer = t.subject)]_vars

\* a CA candidate is left unpromoted although a trusted key signed it, because
\* its issuer DN names no trusted certificate, while another was promoted
C3_Witness ==
  /\ pc = "reader_validate"
  /\ reader.passes >= 2
  /\ \E i \in 1..Len(reader.candidates) :
        LET c == reader.candidates[i].cert
        IN /\ is_ca(c)
           /\ \E t \in Range(reader.trusted_certs) : verify_signature(c, t)
           /\ \A t \in Range(reader.trusted_certs) : c.issuer # t.subject

\* C4: running the loop again over the same chain with the resolved anchors
\* as anchors gives the same set of anchors.
C4_Idempotent ==
  /\ (pc = "reader_validate" /\ ReaderChained =>
        Range(ReaderLoop(LoopInit(reader.pem_anchors, x5chain_cbor, TRUE)).pem_anchors)
          = Range(reader.pem_anchors))
  /\ (pc = "mdoc_validate" /\ MdocChained =>
        Range(MdocLoop(LoopInit(mdoc.pem_anchors, x5chain_cbor, TRUE)).pem_anchors)
          = Range(mdoc.pem_anchors))

C4_Witness ==
  /\ pc = "mdoc_validate"
  /\ MdocChained
  /\ mdoc.passes >= 3
  /\ Len(mdoc.pem_anchors) >= Len(anchors.list) + 2

\* C5: every permutation of the chain list resolves to the same set of anchors.
Permuted(cbor) ==
  {[kind |-> cbor.kind, items |-> [i \in 1..Len(cbor.items) |-> cbor.items[p[i]]]] :
     p \in {f \in [1..Len(cbor.items) -> 1..Len(cbor.items)] :
              \A i, j \in 1..Len(cbor.items) : f[i] = f[j] => i = j}}

C5_OrderIndependent ==
  /\ (pc = "reader_validate" /\ ReaderChained =>
        \A c \in Permuted(x5chain_cbor) :
           Range(ReaderLoop(LoopInit(ReaderPemAnchors(anchors), c, TRUE)).pem_anchors)
             = Range(reader.pem_anchors))
  /\ (pc = "mdoc_validate" /\ MdocChained =>
        \A c \in Permuted(x5chain_cbor) :
           Range(MdocLoop(LoopInit(MdocPemAnchors(anchors), c, TRUE)).pem_anchors)
             = Range(mdoc.pem_anchors))

\* a chain listed child-first, resolved over two promoting passes
C5_Witness ==
  /\ pc = "reader_validate"
  /\ ReaderChained
  /\ reader.passes = 3
  /\ Len(x5chain_cbor.items) = 2
  /\ x5chain_cbor.items[1] # x5chain_cbor.items[2]
  /\ ~is_signed_by_trusted(x5chain_cbor.items[1].cert, ParseRoots(ReaderPemAnchors(anchors)))

\* C6 (as claimed): the loop executes at most |chain| passes.
C6_AtMostChainPasses ==
  /\ reader.passes <= Len(x5chain_cbor.items)
  /\ mdoc.passes <= Len(x5chain_cbor.items)

\* C6 (amended): the loop executes at most |chain| + 1 passes, the last one
\* promoting nothing, and every pass that makes progress removes a candidate.
C6_PassBound ==
  \A st \in {reader, mdoc} :
     /\ st.passes + Len(st.candidates) <= Len(x5chain_cbor.items) + 1
     /\ (st.progress /\ st.passes > 0
           => st.passes + Len(st.candidates) <= Len(x5chain_cbor.items))

C6_Witness ==
  /\ pc = "reader_validate"
  /\ Len(x5chain_cbor.items) = 2
  /\ reader.passes = 3

\* C7: on the same chain and anchors the two copies end with the same set of
\* registry certificates.
C7_SameAnchors ==
  pc = "mdoc_validate" /\ ReaderChained /\ MdocChained
    => Registry(reader.pem_anchors) = Registry(mdoc.pem_anchors)

\* C8: the resolver raises no error: malformed entries are skipped, a value
\* that is not an array leaves the anchors as supplied.
ResolverTotal(st, ran, chained, supplied, result) ==
  /\ (ran /\ pc \notin {"mdoc_start", "done"} /\ st.passes > 0 => result = "pending")
  /\ (chained =>
        /\ \A i \in 1..Len(st.candidates) :
              /\ (st.candidates[i].idx + 1) \in Decodable(x5chain_cbor)
              /\ st.candidates[i].cert = x5chain_cbor.items[st.candidates[i].idx + 1].cert
        /\ (st.passes = 0 => Len(st.candidates) = Cardinality(Decodable(x5chain_cbor))))
  /\ (ran /\ x5chain_cbor.kind # "Array" => st.pem_anchors = supplied /\ st.passes = 0)

C8_ResolverNeverFails ==
  /\ ResolverTotal(reader, ReaderRan, ReaderChained,
                   IF anchors.some THEN ReaderPemAnchors(anchors) ELSE <<>>,
                   IF pc \in {"reader_loop", "reader_validate"} THEN reader_result ELSE "pending")
  /\ ResolverTotal(mdoc, MdocRan, MdocChained,
                   IF MdocHasAnchors(anchors) THEN MdocPemAnchors(anchors) ELSE <<>>,
                   IF pc \in {"mdoc_loop", "mdoc_validate"} THEN mdoc_result ELSE "pending")

\* a chain with a malformed entry whose other entry is promoted
C8_Witness ==
  /\ pc = "reader_validate"
  /\ ReaderChained
  /\ \E i \in 1..Len(x5chain_cbor.items) : i \notin Decodable(x5chain_cbor)
  /\ Len(reader.pem_anchors) > Len(anchors.list)
  /\ reader_result = "pending"

\* C9: without use_intermediate_chaining the registry holds exactly the
\* supplied anchors and a chain whose signer is issued by none of them fails
\* validation; with it, a CA of the chain signed by an anchor is in the registry.
SuppliedRoots == ParseRoots(ReaderPemAnchors(anchors))

C9_ChainingFlag ==
  /\ (ReaderRan /\ anchors.some /\ ~use_intermediate_chaining =>
        /\ reader.pem_anchors = ReaderPemAnchors(anchors)
        /\ (~MdlAnchored(X5ChainCerts(x5chain_cbor), Range(SuppliedRoots))
              => reader_result # "IssuerValid"))
  /\ (MdocRan /\ MdocHasAnchors(anchors) /\ ~use_intermediate_chaining =>
        /\ mdoc.pem_anchors = MdocPemAnchors(anchors)
        /\ (~MdlAnchored(X5ChainCerts(x5chain_cbor), Range(SuppliedRoots))
              => mdoc_result \notin {"Ok", "IssuerAuthFailed"}))
  /\ (pc = "reader_validate" /\ ReaderChained =>
        \A i \in Decodable(x5chain_cbor) :
           is_ca(x5chain_cbor.items[i].cert)
             /\ is_signed_by_trusted(x5chain_cbor.items[i].cert, SuppliedRoots)
           => x5chain_cbor.items[i].cert \in Registry(reader.pem_anchors))
  /\ (pc = "mdoc_validate" /\ MdocChained =>
        \A i \in Decodable(x5chain_cbor) :
           is_ca(x5chain_cbor.items[i].cert)
             /\ is_signed_by_trusted(x5chain_cbor.items[i].cert, SuppliedRoots)
           => x5chain_cbor.items[i].cert \in Registry(mdoc.pem_anchors))

\* validation succeeds through a promoted intermediate that is not an anchor
C9_Witness ==
  /\ pc = "done"
  /\ use_intermediate_chaining
  /\ mdoc_result = "Ok"
  /\ ~MdlAnchored(X5ChainCerts(x5chain_cbor), Range(SuppliedRoots))
  /\ ~is_ca(x5chain_cbor.items[1].cert)
(* ====================================================================== *)
(* Properties of the holder session                                        *)
(* ====================================================================== *)
\* the errors submit_response gives for a call out of sequence
WrongStateError == {"Err:Generic:no_session", "Err:Generic:submit"}

\* C10 (as claimed): submit_response with no generate_response since the
\* session was created or the last request was received returns a wrong-state
\* error and leaves the engaged context and the pending exchange unchanged.
C10_SubmitBeforeGenerate ==
  [][last'.op = "submit_response" /\ ~generated =>
        /\ last'.result \in WrongStateError
        /\ in_process' = in_process
        /\ engaged' = engaged]_vars

\* C10 (amended): such a call with a well-formed signature returns a
\* wrong-state error, with a malformed one InvalidSignature, and in both cases
\* the engaged context and the pending exchange are unchanged.
C10_SubmitBeforeGenerateWellFormed ==
  [][last'.op = "submit_response" /\ ~generated =>
        /\ (last'.signature = "p256" => last'.result \in WrongStateError)
        /\ (last'.signature # "p256" => last'.result = "Err:InvalidSignature")
        /\ in_process' = in_process
        /\ engaged' = engaged]_vars

\* a request was received, nothing generated, and a well-formed signature
\* was submitted
C10_Witness ==
  /\ last.op = "submit_response"
  /\ last.signature = "p256"
  /\ ~generated
  /\ in_process.some
  /\ last.result = "Err:Generic:submit"
\* C11: submit_response returns TooManyDocuments exactly when the signature
\* is well-formed and, once it is bound to the next payload of the prepared
\* response, another payload is still pending (more than one document was to
\* be signed); then no response bytes are returned.
C11_TooManyDocuments ==
  [][last'.op = "submit_response" =>
        /\ last'.result = "Err:TooManyDocuments" <=>
              /\ last'.signature = "p256"
              /\ in_process.some
              /\ in_process.session.state = "ResponsePrepared"
              /\ Cardinality(in_process.session.pending) > 1
        /\ last'.result = "Err:TooManyDocuments" =>
              /\ last'.value = 0
              /\ in_process'.session.pending # {}
              /\ Cardinality(in_process'.session.pending)
                   = Cardinality(in_process.session.pending) - 1]_vars

\* a signature was bound and a payload of the same response is still pending
C11_Witness ==
  /\ last.op = "submit_response"
  /\ last.result = "Err:TooManyDocuments"
  /\ in_process.session.state = "ResponsePrepared"
  /\ in_process.session.pending # {}
\* C12: a handle_request call that fails, on undecodable bytes or on a
\* session-establishment error, leaves the engaged context and the pending
\* exchange (absent, or that of an earlier request) as they were.
C12_FailedRequestKeepsState ==
  [][last'.op = "handle_request" /\ last'.result # "Ok" =>
        /\ last'.result \in {"Err:Generic:deserialize", "Err:Generic:establishment"}
        /\ in_process' = in_process
        /\ engaged' = engaged]_vars

\* an earlier exchange is pending and the latest request failed to establish
C12_Witness ==
  /\ last.op = "handle_request"
  /\ last.result = "Err:Generic:establishment"
  /\ in_process.some
  /\ in_process.session.state = "ResponsePrepared"

\* C13: a successful handle_request, whatever the pending exchange was,
\* stores exactly the session context and the requested items of the new
\* request, in state RequestReceived with nothing prepared, and nothing of the
\* earlier exchange remains.
C13_RequestReplacesExchange ==
  [][last'.op = "handle_request" /\ last'.result = "Ok" =>
        /\ last'.value \in RequestId
        /\ in_process' = InProcessRecord(SessionManagerFor(engaged, last'.value),
                                         last'.value)
        /\ in_process'.session.state = "RequestReceived"
        /\ in_process'.session.pending = {}
        /\ engaged' = engaged]_vars

\* the latest call received a request and its exchange is the pending one
C13_Witness ==
  /\ last.op = "handle_request"
  /\ last.result = "Ok"
  /\ in_process.some
  /\ in_process.items_request = last.value
  /\ in_process.session.state = "RequestReceived"

\* C14: generate_response on a session whose pending exchange is absent (no
\* request was ever received) returns the no-request error, no payload, and
\* changes nothing.
C14_GenerateWithoutRequest ==
  [][last'.op = "generate_response" /\ ~in_process.some =>
        /\ last'.result = "Err:Generic:no_session"
        /\ last'.value = 0
        /\ in_process' = in_process
        /\ engaged' = engaged]_vars

\* generate_response was called before any request was received
C14_Witness ==
  /\ last.op = "generate_response"
  /\ last.result = "Err:Generic:no_session"
  /\ ~in_process.some

\* the calls that never touch the pending exchange
PassiveCalls == {"terminate_session", "get_qr_code_uri", "get_ble_ident"}

C17_TerminateAlwaysEnabled ==
  /\ [](ENABLED TerminateSession)
  /\ [][last'.op = "terminate_session" =>
           /\ last'.result = "Ok"
           /\ last'.value = SessionTermination]_vars

\* a session with a prepared, not yet completed response was terminated
C17_Witness ==
  /\ last.op = "terminate_session"
  /\ last.result = "Ok"
  /\ in_process.some
  /\ in_process.session.state = "ResponsePrepared"

\* C18: the QR code URI and the BLE identifier set by the constructor are
\* never changed by a call, and the getters return them.
C18_EngagementFixed ==
  \A uri, ident \in 1..NumUuid :
     (qr_code_uri = uri /\ ble_ident = ident) =>
        [](/\ qr_code_uri = uri
           /\ ble_ident = ident
           /\ last.op = "get_qr_code_uri" => last.value = uri
           /\ last.op = "get_ble_ident" => last.value = ident)

\* the QR code URI was read after an exchange was completed
C18_Witness ==
  /\ last.op = "get_qr_code_uri"
  /\ last.value = qr_code_uri
  /\ in_process.some
  /\ in_process.session.state = "Completed"
(* ====================================================================== *)
(* Properties of concurrent calls on a holder session                      *)
(* ====================================================================== *)
\* C16: under every interleaving of the threads' steps, at most one thread is
\* reading or writing the pending exchange (the replacement step of
\* handle_request, generate_response, submit_response), and it does so
\* holding the only guard of the in_process mutex.
C16_PendingExchangeSerialized ==
  /\ \A t1, t2 \in Thread :
        threads[t1].pc \in Accessing /\ threads[t2].pc \in Accessing => t1 = t2
  /\ \A t \in Thread : threads[t].pc \in Holding <=> t \in in_process_lock
  /\ Cardinality(in_process_lock) <= 1

\* one thread is inside generate_response while another, inside
\* handle_request, waits to replace the pending exchange
C16_Witness ==
  \E t1, t2 \in Thread :
     /\ threads[t1].pc = "gr_payload"
     /\ threads[t2].pc = "hr_lock_in_process"
     /\ in_process_lock = {t1}

(* ====================================================================== *)
(* Properties of the reader session                                        *)
(* ====================================================================== *)
\* what a caller can tell apart in the outcome of establish_session
SessionOutcome(data) == <<data.result, data.uuid, data.ble_ident>>

\* C19: establish_session fails, returning no session data, whenever the
\* engagement advertises no BLE central-client mode; when it succeeds the
\* uuid is that of the first mode advertised; and a call repeated on the same
\* inputs has the same outcome.
C19_FirstCentralClientUuid ==
  /\ [](established.data.result # "none" =>
          /\ established.uri.central_client = <<>> =>
                /\ established.data.result # "Ok"
                /\ established.data = NoSessionData(established.data.result)
          /\ established.uri.central_client # <<>> =>
                established.data.result # "Err:Generic:no_central_client_uuid"
          /\ established.data.result = "Ok" =>
                established.data.uuid = established.uri.central_client[1])
  /\ [][/\ established.data.result # "none"
        /\ established'.uri = established.uri
        /\ established'.requested_items = established.requested_items
        /\ established'.trust_anchor_registry = established.trust_anchor_registry
        => SessionOutcome(established'.data) = SessionOutcome(established.data)]_vars

\* the engagement was parsed and advertises no central-client mode
C19_Witness ==
  /\ established.uri.parses
  /\ established.uri.central_client = <<>>
  /\ established.data.result = "Err:Generic:no_central_client_uuid"

\* the checks of a response that failed, given the anchors of the session
DecryptionFailed == ~response_data.response.decrypts

IssuerAuthFailed ==
  /\ response_data.response.decrypts
  /\ response_data.response.parses
  /\ established.data.state.registry # {}
  /\ ~response_data.response.issuer_ok

DeviceAuthFailed ==
  /\ response_data.response.decrypts
  /\ response_data.response.parses
  /\ ~response_data.response.device_ok

\* C20: when decryption, issuer authentication or device authentication of a
\* response fails, handle_response still returns a result: the failed check
\* is reported as Invalid or Unchecked, never as Valid, the error list is
\* present and not empty, and the elements decoded are returned.
C20_FailureIsStatus ==
  response_data.data.result # "none"
    /\ (DecryptionFailed \/ IssuerAuthFailed \/ DeviceAuthFailed) =>
      /\ response_data.data.result = "Ok"
      /\ response_data.data.errors.some
      /\ response_data.data.errors.json # {}
      /\ DecryptionFailed =>
            /\ response_data.data.issuer_authentication = "Unchecked"
            /\ response_data.data.device_authentication = "Unchecked"
            /\ response_data.data.verified_response = {}
      /\ IssuerAuthFailed =>
            response_data.data.issuer_authentication \in {"Invalid", "Unchecked"}
      /\ DeviceAuthFailed =>
            response_data.data.device_authentication \in {"Invalid", "Unchecked"}
      /\ ~DecryptionFailed /\ response_data.response.parses =>
            response_data.data.verified_response =
               {[namespace |-> "org.iso.18013.5.1",
                 items |-> response_data.response.elements]}

\* a response with elements whose issuer authentication failed against the
\* anchors of the session
C20_Witness ==
  /\ response_data.data.result = "Ok"
  /\ IssuerAuthFailed
  /\ response_data.response.elements # {}
  /\ response_data.data.issuer_authentication = "Invalid"

(* ====================================================================== *)
(* Properties of the verification entry points                             *)
(* ====================================================================== *)
\* the call of an entry point that has returned
Called(entry) == verified.entry = entry

\* the supplied trust-anchor set is absent or empty
NoAnchors == ~anchors.some \/ anchors.list = <<>>

\* C21: whenever the supplied trust-anchor set is empty or absent, issuer
\* authentication is reported as Unchecked, never Valid or Invalid and never
\* as a successful verification, by verify_oid4vp_response,
\* Mdoc::verify_issuer_signature and MdocVerifier::verify.
C21_NoAnchorsUnchecked ==
  NoAnchors =>
    /\ Called("verify_oid4vp_response") /\ verified.data.result = "Ok"
         => verified.data.issuer_authentication = "Unchecked"
    /\ Called("verify_issuer_signature")
         => ~(verified.data.result = "Ok" /\ verified.data.verified)
    /\ Called("verify") => ~(verified.data.result = "Ok" /\ verified.data.valid)

\* the registry of the supplied anchors, expanded by the intermediates of the
\* chain when chaining is asked for
SuppliedRegistry ==
  Registry(ReaderLoop(LoopInit(ReaderPemAnchors(anchors), x5chain_cbor,
                               use_intermediate_chaining)).pem_anchors)

\* the document's chain validates against the supplied anchors and the
\* issuer's signature verifies
IssuerVerified ==
  /\ ~NoAnchors
  /\ \A i \in 1..Len(anchors.list) : from_pem_ok(anchors.list[i])
  /\ MdlAnchored(X5ChainCerts(x5chain_cbor), SuppliedRegistry)
  /\ document.issuer = "ok"

\* C22: no cryptographic failure is reported as success: MdocVerifier::verify
\* returns valid = true and Mdoc::verify_issuer_signature returns verified =
\* true only when the chain was validated against the supplied anchors and the
\* issuer signature verified.
C22_SuccessOnlyIfVerified ==
  /\ Called("verify_issuer_signature") /\ verified.data.result = "Ok"
       /\ verified.data.verified => IssuerVerified
  /\ Called("verify") /\ verified.data.result = "Ok" /\ verified.data.valid
       => IssuerVerified

\* C23: verify_oid4vp_response builds the session transcript
\* [null, null, [SHA-256(client_id), SHA-256(response_uri), nonce]]: a function
\* of client_id, response_uri and nonce only.
C23_TranscriptOfHandover ==
  Called("verify_oid4vp_response") /\ verified.data.result = "Ok"
    => verified.data.session_transcript =
         <<"null", "null",
           <<[sha256 |-> verified.client_id], [sha256 |-> verified.response_uri],
             verified.nonce>> >>

C23_Witness ==
  /\ Called("verify_oid4vp_response")
  /\ verified.data.result = "Ok"
  /\ verified.client_id = "client_b"
  /\ verified.response_uri = "uri_a"
  /\ verified.nonce = "nonce_b"
  /\ anchors.some

\* the response of the call with the device signature bytes changed
OtherDeviceSignature == [document EXCEPT !.device_sig_ok = ~document.device_sig_ok]

\* C24: two responses that differ only in the device signature (intact in
\* one, corrupted in the other) yield results that differ only in the device
\* authentication status and the error list; the returned elements and the
\* issuer authentication status are equal.
C24_DeviceSignatureOnly ==
  Called("verify_oid4vp_response") =>
    LET other == verify_oid4vp_response(BytesOf(OtherDeviceSignature, x5chain_cbor),
                   verified.nonce, verified.client_id, verified.response_uri,
                   anchors, use_intermediate_chaining)
    IN /\ other.result = verified.data.result
       /\ other.verified_response = verified.data.verified_response
       /\ other.issuer_authentication = verified.data.issuer_authentication
       /\ other.session_transcript = verified.data.session_transcript

C24_Witness ==
  /\ Called("verify_oid4vp_response")
  /\ verified.data.result = "Ok"
  /\ verified.data.issuer_authentication = "Valid"
  /\ verified.data.device_authentication = "Valid"
  /\ verified.data.verified_response # {}
  /\ verify_oid4vp_response(BytesOf(OtherDeviceSignature, x5chain_cbor),
       verified.nonce, verified.client_id, verified.response_uri,
       anchors, use_intermediate_chaining).device_authentication = "Invalid"

\* C25: verify_oid4vp_response is stateless: the result of a call depends
\* only on its arguments, and each of several concurrent calls returns what a
\* sequential run on its arguments returns.
C25_CallersGetSequentialResult ==
  \A t \in Thread :
     CallerAt(t, "returned") =>
       callers[t].data =
         verify_oid4vp_response(BytesOf(document, x5chain_cbor), callers[t].nonce,
                                callers[t].client_id, callers[t].response_uri,
                                anchors, use_intermediate_chaining)

C25_Witness ==
  /\ CallerAt(1, "returned")
  /\ CallerAt(2, "resolved")
  /\ callers[1].data.result = "Ok"
  /\ callers[1].data.device_authentication = "Valid"
  /\ callers[2].nonce # callers[1].nonce

\* one of the supplied anchors is not a decodable PEM or anchor record
MalformedAnchor == \E i \in 1..Len(anchors.list) : ~from_pem_ok(anchors.list[i])

\* C26: a malformed trust anchor is surfaced as an error of the call and never
\* silently dropped, by verify_oid4vp_response, Mdoc::verify_issuer_signature
\* and MdocVerifier::verify.
C26_MalformedAnchorIsError ==
  MalformedAnchor /\ ~Called("none") => verified.data.result # "Ok"

\* C27: verify_oid4vp_response returns the error "Unable to parse
\* DeviceResponse" and no result whenever the response bytes do not decode,
\* whatever the other arguments are; the check precedes anchor parsing and
\* validation.
C27_UndecodableResponse ==
  Called("verify_oid4vp_response") /\ ~document.decodes
    => /\ verified.data.result = "Err:Generic:Unable to parse DeviceResponse"
       /\ verified.data.verified_response = {}
       /\ verified.data.issuer_authentication = "None"
       /\ verified.data.device_authentication = "None"

C27_Witness ==
  /\ Called("verify_oid4vp_response")
  /\ ~document.decodes
  /\ MalformedAnchor
  /\ \E i \in 1..Len(anchors.list) : ~from_json_ok(anchors.list[i])
  /\ use_intermediate_chaining
  /\ verified.nonce = "nonce_b"

\* the registry Mdoc::verify_issuer_signature builds: the supplied anchors and
\* the intermediates its loop adds
MdocRegistry ==
  Registry(MdocLoop(LoopInit(MdocPemAnchors(anchors), x5chain_cbor,
                             use_intermediate_chaining)).pem_anchors)

\* the ruleset validation of the document's chain against that registry
\* reports an error
ValidationErrors ==
  ~(MdlAnchored(X5ChainCerts(x5chain_cbor), MdocRegistry)
      /\ document.issuer # "rules_error")

\* C28: Mdoc::verify_issuer_signature, given a non-empty anchor list, returns
\* X5ChainValidationFailed whenever the ruleset validation of the chain
\* against the registry of the anchors (expanded by the loop when chaining)
\* reports an error: the issuer signature check is not reached and no Ok
\* result is produced.
C28_ValidationFailed ==
  /\ Called("verify_issuer_signature")
  /\ MdocHasAnchors(anchors)
  /\ ~MalformedAnchor
  /\ x5chain_cbor.kind # "Missing"
  /\ Parses(BytesOf(document, x5chain_cbor))
  /\ ValidationErrors
  => verified.data.result = "Err:X5ChainValidationFailed"

C28_Witness ==
  /\ Called("verify_issuer_signature")
  /\ MdocHasAnchors(anchors)
  /\ use_intermediate_chaining
  /\ Cardinality(MdocRegistry) > Len(anchors.list)
  /\ ValidationErrors
  /\ verified.data.result = "Err:X5ChainValidationFailed"

\* C29: every Ok result of Mdoc::verify_issuer_signature has verified = true
\* and error = None, and a failed issuer signature is Err(IssuerAuthFailed),
\* never an Ok result.
C29_OkIsVerified ==
  Called("verify_issuer_signature") =>
    /\ verified.data.result = "Ok"
         => /\ verified.data.verified
            /\ verified.data.error = "None"
            /\ document.issuer # "bad_signature"
    /\ document.issuer = "bad_signature"
         => verified.data.result \in
              {"Err:X5ChainMissing", "Err:X5ChainParsing", "Err:TrustAnchorRegistryError",
               "Err:X5ChainValidationFailed", "Err:IssuerAuthFailed"}
    /\ document.issuer = "bad_signature" /\ NoAnchors
         /\ x5chain_cbor.kind # "Missing" /\ Parses(BytesOf(document, x5chain_cbor))
         => verified.data.result = "Err:IssuerAuthFailed"

C29_Witness ==
  /\ Called("verify_issuer_signature")
  /\ document.issuer = "bad_signature"
  /\ MdocHasAnchors(anchors)
  /\ verified.data.result = "Err:IssuerAuthFailed"

(* ====================================================================== *)
(* The marking of candidates in a pass                                     *)
(* ====================================================================== *)
\* a pass from loop state st to loop state st2 takes out of the pool exactly
\* the candidates that some certificate trusted in st issued and signed
PassMarks(st, st2) ==
  LET Unmarked(c) ==
        ~\E j \in 1..Len(st.trusted_certs) :
            /\ st.trusted_certs[j].subject = c.cert.issuer
            /\ st.trusted_certs[j].key = c.cert.signer
  IN st2.candidates = SelectSeq(st.candidates, Unmarked)

\* C30: in each pass a candidate is marked for promotion if and only if some
\* certificate of the trusted set as it stood at the start of the pass has the
\* candidate's issuer DN as subject and verifies the candidate's signature;
\* certificates promoted during the pass are not used before the next pass,
\* and a trusted certificate of the same DN that does not verify does not
\* block a later one that does.
C30_MarkedIffSignedByTrusted ==
  [][/\ pc = "reader_loop" => PassMarks(reader, reader')
     /\ pc = "mdoc_loop" => PassMarks(mdoc, mdoc')]_vars

\* the third trusted certificate was promoted in the second pass: it is signed
\* by the second, which has the subject of the first but another key
C30_Witness ==
  /\ pc = "reader_validate"
  /\ reader.passes >= 2
  /\ Len(reader.trusted_certs) = 3
  /\ reader.trusted_certs[1].subject = reader.trusted_certs[2].subject
  /\ reader.trusted_certs[1].key # reader.trusted_certs[2].key
  /\ reader.trusted_certs[3].issuer = reader.trusted_certs[1].subject
  /\ reader.trusted_certs[3].signer = reader.trusted_certs[2].key

(* ====================================================================== *)
(* Further properties of the holder session                                *)
(* ====================================================================== *)
\* C31: submit_response looks at the shape of the signature before it looks at
\* the session: with a signature that is not a well-formed P-256 signature it
\* returns InvalidSignature and no bytes in every state of the session, a
\* session that never received a request included, and the pending exchange
\* and the engaged context are as they were.
C31_MalformedSignatureFirst ==
  [][last'.op = "submit_response" /\ last'.signature # "p256" =>
        /\ last'.result = "Err:InvalidSignature"
        /\ last'.value = 0
        /\ in_process' = in_process
        /\ engaged' = engaged
        /\ generated' = generated]_vars

\* a malformed signature was submitted to a session without a request
C31_Witness ==
  /\ last.op = "submit_response"
  /\ last.signature = "malformed"
  /\ last.result = "Err:InvalidSignature"
  /\ ~in_process.some

(* ====================================================================== *)
(* The order of the checks of Mdoc::verify_issuer_signature                *)
(* ====================================================================== *)
\* the checks of verify_issuer_signature that fail on the inputs of the run,
\* each named by the error it gives; the registry and the ruleset validation
\* are checks only when a non-empty anchor list is supplied
FailingChecks ==
  {e \in {"Err:X5ChainMissing"} : x5chain_cbor.kind = "Missing"}
    \cup {e \in {"Err:X5ChainParsing"} : ~Parses(BytesOf(document, x5chain_cbor))}
    \cup {e \in {"Err:TrustAnchorRegistryError"} :
            MdocHasAnchors(anchors) /\ MalformedAnchor}
    \cup {e \in {"Err:X5ChainValidationFailed"} :
            MdocHasAnchors(anchors) /\ ValidationErrors}
    \cup {e \in {"Err:IssuerAuthFailed"} : document.issuer = "bad_signature"}

\* the order in which the checks are made
CheckOrder ==
  <<"Err:X5ChainMissing", "Err:X5ChainParsing", "Err:TrustAnchorRegistryError",
    "Err:X5ChainValidationFailed", "Err:IssuerAuthFailed">>

\* the first check in the order that fails, "Ok" when none does
FirstFailingCheck ==
  IF FailingChecks = {} THEN "Ok"
  ELSE CheckOrder[CHOOSE i \in 1..Len(CheckOrder) :
                    /\ CheckOrder[i] \in FailingChecks
                    /\ \A j \in 1..(i - 1) : CheckOrder[j] \notin FailingChecks]

\* C32: Mdoc::verify_issuer_signature returns X5ChainMissing whenever the
\* unprotected header of issuer_auth has no x5chain entry, for every anchor
\* list and chaining flag, and otherwise the error of the first check that
\* fails in the order X5ChainMissing, X5ChainParsing, TrustAnchorRegistryError,
\* X5ChainValidationFailed, IssuerAuthFailed; it returns Ok when none fails.
C32_FirstFailingCheckDecides ==
  Called("verify_issuer_signature") =>
    /\ x5chain_cbor.kind = "Missing" => verified.data.result = "Err:X5ChainMissing"
    /\ verified.data.result = FirstFailingCheck

\* a document without x5chain header was verified against a malformed anchor
\* with chaining: two checks fail and the earlier one decides
C32_Witness ==
  /\ Called("verify_issuer_signature")
  /\ x5chain_cbor.kind = "Missing"
  /\ MdocHasAnchors(anchors)
  /\ MalformedAnchor
  /\ use_intermediate_chaining
  /\ Cardinality(FailingChecks) > 1
  /\ verified.data.result = "Err:X5ChainMissing"

\* the states a stored session context takes
ExchangeStates == {"RequestReceived", "ResponsePrepared", "Completed"}

\* C33: terminate_session changes no state of the session: the engaged
\* context, the pending exchange and the engagement data are the same before
\* and after the call; no terminated state is ever entered, and the call made
\* after it (handle_request, generate_response, submit_response) is enabled
\* and gives the result and the pending exchange it gives on the state that
\* was there before terminate_session.
C33_TerminateChangesNothing ==
  /\ [][last'.op = "terminate_session" =>
          /\ in_process' = in_process
          /\ engaged' = engaged
          /\ generated' = generated
          /\ qr_code_uri' = qr_code_uri
          /\ ble_ident' = ble_ident]_vars
  /\ [](in_process.some => in_process.session.state \in ExchangeStates)
  /\ [](last.op = "terminate_session" =>
          /\ ENABLED (HandleRequest /\ last'.result = "Ok")
          /\ ENABLED GenerateResponse
          /\ ENABLED SubmitResponse)
  /\ [][last.op = "terminate_session" =>
          /\ last'.op = "handle_request" =>
               \E request \in RequestBytes :
                  LET r == handle_request(engaged, in_process, request)
                  IN /\ in_process' = r.in_process
                     /\ last'.result = r.result
                     /\ last'.value = r.value
          /\ last'.op = "generate_response" =>
               \E permitted \in PermittedItems :
                  LET r == generate_response(in_process, permitted)
                  IN /\ in_process' = r.in_process
                     /\ last'.result = r.result
                     /\ last'.value = r.value
          /\ last'.op = "submit_response" =>
               LET r == submit_response(in_process, last'.signature)
               IN /\ in_process' = r.in_process
                  /\ last'.result = r.result
                  /\ last'.value = r.value]_vars

\* a session whose exchange was completed was terminated and the completed
\* exchange is still stored
C33_Witness ==
  /\ last.op = "terminate_session"
  /\ last.value = SessionTermination
  /\ in_process.some
  /\ in_process.session.state = "Completed"

\* a response was prepared for the stored request and a payload of it awaits
\* its signature
AwaitsSignature ==
  /\ in_process.some
  /\ in_process.session.state = "ResponsePrepared"
  /\ in_process.session.pending # {}

\* C34: every successful submit_response is preceded by a successful
\* generate_response made after the most recent successful handle_request.
\* A payload awaits its signature only from a successful generate_response
\* on; a successful handle_request leaves none awaiting; only a submit_response
\* made while one awaits returns response bytes.  So a submit_response that
\* follows a request which replaced the pending exchange returns none.
C34_SubmitNeedsGenerate ==
  /\ [][~AwaitsSignature /\ AwaitsSignature' =>
          last'.op = "generate_response" /\ last'.result = "Ok"]_vars
  /\ [][last'.op = "handle_request" /\ last'.result = "Ok" =>
          ~AwaitsSignature' /\ ~generated']_vars
  /\ [][last'.op = "submit_response" /\ last'.result = "Ok" =>
          AwaitsSignature /\ generated]_vars
  /\ [][last'.op = "submit_response" /\ last'.result # "Ok" => last'.value = 0]_vars
  /\ [][(last.op = "handle_request" /\ last.result = "Ok"
            /\ last'.op = "submit_response") =>
          /\ last'.result \in {"Err:InvalidSignature", "Err:Generic:submit"}
          /\ last'.value = 0]_vars

\* a response was generated after the latest request and the signature of its
\* only payload was accepted: the response bytes of that request are returned
C34_Witness ==
  /\ last.op = "submit_response"
  /\ last.result = "Ok"
  /\ generated
  /\ in_process.some
  /\ last.value = in_process.session.request

\* C35: once a session has successfully handled a request its pending
\* exchange is never absent again: no call clears it (not submit_response, not
\* terminate_session, not a failing handle_request), the stored request only
\* changes by a successful handle_request, and generate_response on a
\* completed exchange prepares a response to the same stored request again
\* instead of returning the no-request error.
C35_ExchangeNeverCleared ==
  /\ [][in_process.some => in_process'.some]_vars
  /\ [][last'.op = "handle_request" /\ last'.result = "Ok" => in_process'.some]_vars
  /\ [][(in_process.some /\ ~(last'.op = "handle_request" /\ last'.result = "Ok")) =>
          /\ in_process'.items_request = in_process.items_request
          /\ in_process'.session.request = in_process.session.request]_vars
  /\ [][(last'.op = "generate_response" /\ in_process.some
            /\ in_process.session.state = "Completed") =>
          /\ last'.result \in {"Ok", "Err:Generic:no_payload"}
          /\ in_process'.session.state = "ResponsePrepared"
          /\ in_process'.items_request = in_process.items_request]_vars

\* after an exchange was completed a handle_request call failed, and the
\* completed exchange is still the pending one
C35_Witness ==
  /\ last.op = "handle_request"
  /\ last.result = "Err:Generic:deserialize"
  /\ in_process.some
  /\ in_process.session.state = "Completed"

(* ====================================================================== *)
(* Further properties of concurrent calls on a holder session              *)
(* ====================================================================== *)
\* thread t makes the step of handle_request that stores the pending exchange
Stores(t) == threads[t].pc = "hr_store" /\ threads'[t].pc = "hr_return"

\* C36: under concurrent handle_request calls the stored pending exchange
\* always pairs the session context and the requested items of one and the
\* same request.  The pair is written in one step by the call that holds the
\* in_process mutex, it is the record of that call's request, and while that
\* call still holds the mutex no other call changes it: the stored record is
\* that of the handle_request that took the mutex last.
C36_RecordOfLastLocker ==
  /\ [](in_process.some =>
          /\ in_process.session.request = in_process.items_request
          /\ in_process.session.engagement = engaged)
  /\ [][\A t \in Thread : Stores(t) =>
          /\ in_process_lock = {t}
          /\ in_process' = InProcessRecord(
                              SessionManagerFor(engaged, threads[t].request.id),
                              threads[t].request.id)]_vars
  /\ [][(in_process'.some # in_process.some
           \/ in_process'.items_request # in_process.items_request
           \/ in_process'.session.request # in_process.session.request) =>
          \E t \in Thread : Stores(t)]_vars
  /\ [][\A t \in Thread : At(t, "hr_return") =>
          /\ in_process' = in_process
          /\ in_process_lock = {t}]_vars

\* two handle_request calls with different requests overlap: one has stored
\* its record and still holds the mutex, the other waits for it
C36_Witness ==
  \E t1, t2 \in Thread :
     /\ threads[t1].pc = "hr_return"
     /\ threads[t2].pc = "hr_lock_in_process"
     /\ in_process_lock = {t1}
     /\ in_process.some
     /\ threads[t2].request.id # in_process.items_request

C38_FailedGenerateKeepsState ==
  [][last'.op = "generate_response" /\ last'.result # "Ok" =>
        /\ in_process' = in_process
        /\ (last'.result = "Err:Generic:no_payload" /\ in_process.some
              /\ in_process.session.state # "ResponsePrepared")
             => in_process'.session.state # "ResponsePrepared"]_vars

(* ====================================================================== *)
(* Further properties of the reader session                                *)
(* ====================================================================== *)
\* a handle_response call has returned on the established session
ResponseHandled == response_data.data.result # "none"

\* C39: the reader's handle_response does not modify the session it is given:
\* it runs on a copy and returns the advanced copy in its result, the session
\* handed in stays as establish_session returned it, and a further call with
\* the same session and the same response bytes returns the same elements,
\* statuses and errors.
C39_SessionNotModified ==
  /\ [][ResponseHandled' /\ response_data' # response_data =>
          established' = established]_vars
  /\ [](ResponseHandled =>
          /\ established.data.result = "Ok"
          /\ established.data.state.state = "Established"
          /\ response_data.data
               = handle_response(established.data.state, response_data.response)
          /\ (response_data.response.decrypts /\ response_data.response.parses) =>
                /\ response_data.data.state
                     = [established.data.state EXCEPT !.state = "ResponseProcessed"]
                /\ response_data.data.state # established.data.state)
  /\ [][(ResponseHandled /\ ResponseHandled') =>
          /\ response_data'.response = response_data.response
          /\ response_data'.data.verified_response = response_data.data.verified_response
          /\ response_data'.data.issuer_authentication
               = response_data.data.issuer_authentication
          /\ response_data'.data.device_authentication
               = response_data.data.device_authentication
          /\ response_data'.data.errors = response_data.data.errors]_vars

\* a response was processed: the result holds the advanced copy and the
\* session that was handed in is still the established one
C39_Witness ==
  /\ ResponseHandled
  /\ response_data.data.result = "Ok"
  /\ response_data.data.state.state = "ResponseProcessed"
  /\ established.data.state.state = "Established"
  /\ response_data.data.verified_response # {}

====
